---- MODULE Spec2Model ----
(***************************************************************************)
(* PINKMacroTool (Electron): the Macro Engine (cancellable, repeatable     *)
(* action sequencer) and the Trigger Engine (temporal pattern classifier   *)
(* over key and gamepad input), modelled from the JavaScript sources.      *)
(*                                                                         *)
(* JavaScript runs one task at a time.  A macrotask (a UI click, a DOM     *)
(* key event, a setTimeout or setInterval callback) starts only when the   *)
(* microtask queue is empty; the continuation of an `await` is a           *)
(* microtask.  An async function runs synchronously up to its first await. *)
(***************************************************************************)
EXTENDS Integers, Sequences, FiniteSets, TLC

\* ------------------------------------------------------------------------
\* Bounds of the model
\* ------------------------------------------------------------------------
MaxSessions == 2    \* playMacro calls that start a session
MaxActions == 2     \* length of a macro's action list
MaxRepeat == 2      \* largest finite repeat count drawn

MaxTriggers == 2    \* triggers in a drawn catalogue
MaxStarts == 2      \* startMonitoring calls that add listeners
MaxTicks == 2       \* the clock is followed for this many steps
MaxPresses == 2     \* a key with this many remembered presses is not pressed again
NumAxes == 2        \* axes of a gamepad
NumButtons == 1     \* buttons of a gamepad
MaxAxisIndex == 10  \* the highest axis index of a gamepad with many axes

\* a session without repeat limit is followed until it has begun this many
\* actions (more than one pass); a session with a limit is never cut
MaxLog == MaxActions + 1

\* ------------------------------------------------------------------------
\* Macro Engine: data
\* ------------------------------------------------------------------------
MacroIds == {"m1", "m2"}

\* ActionType
KEYBOARD_KEY == "keyboard_key"
KEYBOARD_HOLD == "keyboard_hold"
KEYBOARD_RELEASE == "keyboard_release"
JOYSTICK_BUTTON == "joystick_button"
JOYSTICK_AXIS == "joystick_axis"
MOUSE_MOVE == "mouse_move"
MOUSE_CLICK == "mouse_click"
TIMER_DELAY == "timer_delay"

ActionType ==
    {KEYBOARD_KEY, KEYBOARD_HOLD, KEYBOARD_RELEASE, JOYSTICK_BUTTON,
     JOYSTICK_AXIS, MOUSE_MOVE, MOUSE_CLICK, TIMER_DELAY}

\* JavaScript's null (device ids, action values), and an argument or a
\* record field that may be missing: None is undefined, Some(v) is v
Null == "<null>"
None == <<>>
Some(v) == <<v>>

\* a default parameter value: used when the argument is undefined
DefaultParam(arg, dflt) == IF arg = None THEN dflt ELSE arg[1]

\* new MacroAction(actionType, deviceId = null, inputName = '', value = null, duration = 0)
\* with this.actionId = uuidv4()
MacroAction(uuid, actionType, deviceId, inputName, value, duration) ==
    [actionId |-> uuid,
     actionType |-> actionType,
     deviceId |-> DefaultParam(deviceId, Null),
     inputName |-> DefaultParam(inputName, ""),
     value |-> DefaultParam(value, Null),
     duration |-> DefaultParam(duration, 0)]

\* new Macro(name = 'New Macro') with this.macroId = uuidv4()
Macro(uuid, name) ==
    [macroId |-> uuid,
     name |-> DefaultParam(name, "New Macro"),
     actions |-> <<>>,
     repeatCount |-> 1,
     enabled |-> TRUE,
     description |-> ""]

VARIABLES
    macros,           \* MacroEngine.macros: macro id -> Macro
    activePlaybacks,  \* MacroEngine.activePlaybacks: the ids it holds
    stopFlags,        \* MacroEngine.stopFlags: macro id -> flag object (0: no entry)
    sess,             \* the playMacro invocations: session -> its frame
    robot,            \* whether require('robotjs') succeeded
    stopRequested,    \* history: stopMacro(m) was called and playMacro(m) not since
    triggers,         \* TriggerEngine.triggers, in insertion order
    monitoring,       \* TriggerEngine.monitoring
    listeners,        \* keydown/keyup listener pairs registered on document
    gamepadInterval,  \* TriggerEngine.gamepadInterval is set
    pressedKeys,      \* TriggerEngine.pressedKeys
    keyPressTimes,    \* TriggerEngine.keyPressTimes: key -> timestamps (<<>>: no entry)
    keyHoldTimers,    \* TriggerEngine.keyHoldTimers: key -> timer handle (0: no entry)
    timers,           \* the hold timers setTimeout has scheduled and not yet run or cleared
    now,              \* Date.now(), in ms
    devices,          \* DeviceManager.devices: the ids it holds
    enabledDevices,   \* DeviceManager.enabledDevices: device id -> flag
    gamepads,         \* navigator.getGamepads(): index -> snapshot (NoGamepad: null)
    fired,            \* history: the _activateTrigger calls of the last step, in order
    press,            \* history: per key, its last DOM event and what the press armed
    holdFires,        \* history: per trigger, its hold activations since its key last went down
    last,             \* history: the operation of the last step and its input, where recorded
    macrosFile,       \* the file at config.paths.macrosFile
    savedFrom,        \* history: the macro catalogue the file was last written from
    triggersFile,     \* the file at config.paths.triggersFile
    triggersSavedFrom \* history: the trigger catalogue that file was last written from

macroVars == <<macros, activePlaybacks, stopFlags, sess, robot, stopRequested>>

engineVars ==
    <<triggers, monitoring, listeners, gamepadInterval, pressedKeys, keyPressTimes,
      keyHoldTimers, timers, now, fired, press, holdFires, last>>

deviceVars == <<devices, enabledDevices, gamepads>>

trigVars == <<engineVars, deviceVars>>

configVars == <<macrosFile, savedFrom, triggersFile, triggersSavedFrom>>

vars == <<macroVars, trigVars, configVars>>

\* the value of the history variable `last`
Step(op, input) == [op |-> op, input |-> input]

Sessions == 1..MaxSessions

\* A frame of playMacro/_playbackLoop.  The flag object { stopped } created by
\* the invocation is identified with the session; pc is where the frame is:
\*   "unused"  not yet called
\*   "timer"   suspended in _sleep (a setTimeout is pending)
\*   "micro"   suspended in an await whose promise is already settled
\*   "spin"    inside a while loop that never awaits
\*   "exited"  _playbackLoop returned, playMacro's cleanup not yet run
\*   "done"    playMacro returned
UnusedSession ==
    [macroId |-> "", pc |-> "unused", stopped |-> FALSE, repeatCount |-> 0,
     actions |-> <<>>, iteration |-> 0, idx |-> 0, log |-> <<>>]

Running(s) == sess[s].pc \in {"timer", "micro", "spin"}

\* The microtask queue is empty and no synchronous code is running: the event
\* loop may take the next macrotask.
EventLoopIdle == \A s \in Sessions : sess[s].pc \notin {"micro", "exited", "spin"}

\* the bound on how far a session without repeat limit is followed
Followed(s) == sess[s].repeatCount > 0 \/ Len(sess[s].log) < MaxLog

Hung == \E s \in Sessions : sess[s].pc = "spin"

\* ------------------------------------------------------------------------
\* Macro Engine: executing one action
\* Each _execute* returns how the awaited call ends: "timer" when it awaits
\* _sleep (the frame resumes in a later macrotask), "micro" when it returns or
\* throws without sleeping (the frame resumes in a microtask).  `throws` is
\* whether the robotjs call raises.
\* ------------------------------------------------------------------------
_sleep == "timer"

_executeKeyboardKey(rob, throws) ==
    IF ~rob THEN "micro" ELSE IF throws THEN "micro" ELSE _sleep

_executeKeyboardHold(rob, throws) ==
    IF ~rob THEN "micro" ELSE IF throws THEN "micro" ELSE _sleep

_executeKeyboardRelease(rob, throws) == "micro"

_executeMouseClick(rob, throws) ==
    IF ~rob THEN "micro" ELSE IF throws THEN "micro" ELSE _sleep

_executeMouseMove(rob, throws) == "micro"

\* a variant without the try/catch and the robot checks: a keyboard or mouse
\* action that cannot be injected ends the playback loop
_executeAction_FailureEndsLoop(action, rob, throws) ==
    IF action.actionType = TIMER_DELAY THEN _sleep
    ELSE IF ~rob \/ throws THEN "exited"
    ELSE _sleep

\* The try/catch turns a throw into a normal return; joystick kinds match no
\* branch.
_executeAction(action, rob, throws) ==
    IF action.actionType = TIMER_DELAY THEN _sleep
    ELSE IF action.actionType = KEYBOARD_KEY THEN _executeKeyboardKey(rob, throws)
    ELSE IF action.actionType = KEYBOARD_HOLD THEN _executeKeyboardHold(rob, throws)
    ELSE IF action.actionType = KEYBOARD_RELEASE THEN _executeKeyboardRelease(rob, throws)
    ELSE IF action.actionType = MOUSE_CLICK THEN _executeMouseClick(rob, throws)
    ELSE IF action.actionType = MOUSE_MOVE THEN _executeMouseMove(rob, throws)
    ELSE "micro"

\* ------------------------------------------------------------------------
\* Macro Engine: _playbackLoop, as the synchronous run of a frame f from one
\* of its three control points up to its next suspension or its return.
\* ------------------------------------------------------------------------
\* the loop returns: its locals are gone
LoopExit(f) == [f EXCEPT !.pc = "exited", !.iteration = 0, !.idx = 0]

RepeatLimitReached_OffByOne(iteration, repeatCount) == iteration >= repeatCount

\* if (repeatCount > 0) { iteration++; if (iteration > repeatCount) break; }
RepeatLimitReached(iteration, repeatCount) == iteration > repeatCount

BreakAfterFirst_AlsoZero(repeatCount) == repeatCount <= 1

\* if (repeatCount === 1) break;
BreakAfterFirst(repeatCount) == repeatCount = 1

\* a variant without the await: the action after the one begun is begun in
\* the same run
BeginAction_NoAwait(f, rob, throws) ==
    IF f.idx + 2 <= Len(f.actions)
    THEN [f EXCEPT !.idx = f.idx + 2,
                   !.log = f.log \o <<f.idx + 1, f.idx + 2>>,
                   !.pc = _executeAction(f.actions[f.idx + 2], rob, throws)]
    ELSE [f EXCEPT !.idx = f.idx + 1,
                   !.log = Append(f.log, f.idx + 1),
                   !.pc = _executeAction(f.actions[f.idx + 1], rob, throws)]

\* await this._executeAction(action): the action begins, the frame suspends
BeginAction(f, rob, throws) ==
    [f EXCEPT !.idx = f.idx + 1,
              !.log = Append(f.log, f.idx + 1),
              !.pc = _executeAction(f.actions[f.idx + 1], rob, throws)]

RECURSIVE WhileHead(_, _, _)
RECURSIVE ForNext(_, _, _)

\* the end of the while body
AfterFor(f, rob, throws) ==
    IF BreakAfterFirst(f.repeatCount) THEN LoopExit(f) ELSE WhileHead(f, rob, throws)

\* for (const action of macro.actions): f.idx elements are consumed
ForNext(f, rob, throws) ==
    IF f.idx >= Len(f.actions) THEN AfterFor(f, rob, throws)
    ELSE IF f.stopped THEN AfterFor(f, rob, throws)
    ELSE BeginAction(f, rob, throws)

\* a variant whose while condition is always true
WhileHead_IgnoresStop(f, rob, throws) ==
    LET g == IF f.repeatCount > 0
             THEN [f EXCEPT !.iteration = f.iteration + 1] ELSE f
    IN  IF f.repeatCount > 0 /\ RepeatLimitReached(g.iteration, g.repeatCount)
        THEN LoopExit(g)
        ELSE IF Len(g.actions) = 0 /\ ~(g.repeatCount > 0)
        THEN [g EXCEPT !.pc = "spin"]
        ELSE BeginAction([g EXCEPT !.idx = 0], rob, throws)

\* while (!stopFlag.stopped): with no action and no repeat limit the body
\* never awaits and never breaks
WhileHead(f, rob, throws) ==
    IF f.stopped THEN LoopExit(f)
    ELSE LET g == IF f.repeatCount > 0
                  THEN [f EXCEPT !.iteration = f.iteration + 1] ELSE f
         IN  IF f.repeatCount > 0 /\ RepeatLimitReached(g.iteration, g.repeatCount)
             THEN LoopExit(g)
             ELSE IF Len(g.actions) = 0 /\ ~(g.repeatCount > 0)
             THEN [g EXCEPT !.pc = "spin"]
             ELSE ForNext([g EXCEPT !.idx = 0], rob, throws)

\* const repeatCount = macro.repeatCount; let iteration = 0;
_playbackLoop(macro, rob, throws) ==
    WhileHead([macroId |-> macro.macroId, pc |-> "unused", stopped |-> FALSE,
               repeatCount |-> macro.repeatCount, actions |-> macro.actions,
               iteration |-> 0, idx |-> 0, log |-> <<>>], rob, throws)

\* ------------------------------------------------------------------------
\* Macro Engine: operations
\* ------------------------------------------------------------------------
\* a variant that also resolves the pending _sleep of the frame at once
StopFlagSet_CancelsSleep(f) ==
    [f EXCEPT !.stopped = TRUE, !.log = <<>>,
              !.pc = IF f.pc = "timer" THEN "micro" ELSE f.pc]

\* stopMacro's effect on the flag objects.  The log of begun actions is history
\* kept for sessions whose flag is clear; it is closed when the flag is set.
StopFlagSet(f) == [f EXCEPT !.stopped = TRUE, !.log = <<>>]

\* a variant that flips the flag instead of setting it
SetStopped_Toggles(ss, flags, m) ==
    IF flags[m] # 0
    THEN [ss EXCEPT ![flags[m]] = [@ EXCEPT !.stopped = ~@, !.log = <<>>]]
    ELSE ss

\* a variant that sets every flag in the table
SetStopped_EveryMacro(ss, flags, m) ==
    [s \in DOMAIN ss |->
        IF \E k \in MacroIds : flags[k] = s THEN StopFlagSet(ss[s]) ELSE ss[s]]

SetStopped(ss, flags, m) ==
    IF flags[m] # 0 THEN [ss EXCEPT ![flags[m]] = StopFlagSet(ss[flags[m]])] ELSE ss

\* the session the next playMacro invocation becomes
FreshSession == CHOOSE s \in Sessions :
    /\ sess[s].pc = "unused"
    /\ \A r \in Sessions : r < s => sess[r].pc # "unused"

\* a variant without the `if (!macro.enabled) return`
playMacro_IgnoresEnabled(m) ==
    /\ EventLoopIdle
    /\ stopRequested' = [stopRequested EXCEPT ![m] = FALSE]
    /\ IF m \notin DOMAIN macros
       THEN UNCHANGED <<macros, activePlaybacks, stopFlags, sess, robot>>
       ELSE /\ \E s \in Sessions : sess[s].pc = "unused"
            /\ \E throws \in BOOLEAN :
                 LET stoppedOld == IF m \in activePlaybacks
                                   THEN SetStopped(sess, stopFlags, m) ELSE sess
                 IN  sess' = [stoppedOld EXCEPT
                                ![FreshSession] = _playbackLoop(macros[m], robot, throws)]
            /\ stopFlags' = [stopFlags EXCEPT ![m] = FreshSession]
            /\ activePlaybacks' = activePlaybacks \cup {m}
            /\ UNCHANGED <<macros, robot>>
    /\ UNCHANGED <<trigVars, configVars>>

\* a variant that stops the macro after it has put the new flag in the table
playMacro_StopsAfterInstall(m) ==
    /\ EventLoopIdle
    /\ stopRequested' = [stopRequested EXCEPT ![m] = FALSE]
    /\ IF m \notin DOMAIN macros
       THEN UNCHANGED <<macros, activePlaybacks, stopFlags, sess, robot>>
       ELSE IF ~macros[m].enabled
       THEN UNCHANGED <<macros, activePlaybacks, stopFlags, sess, robot>>
       ELSE /\ \E s \in Sessions : sess[s].pc = "unused"
            /\ \E throws \in BOOLEAN :
                 LET started == [sess EXCEPT
                                   ![FreshSession] = _playbackLoop(macros[m], robot, throws)]
                     installed == [stopFlags EXCEPT ![m] = FreshSession]
                 IN  sess' = IF m \in activePlaybacks
                             THEN SetStopped(started, installed, m) ELSE started
            /\ stopFlags' = [stopFlags EXCEPT ![m] = FreshSession]
            /\ activePlaybacks' = activePlaybacks \cup {m}
            /\ UNCHANGED <<macros, robot>>
    /\ UNCHANGED <<trigVars, configVars>>

playMacro(m) ==
    /\ EventLoopIdle
    /\ stopRequested' = [stopRequested EXCEPT ![m] = FALSE]
    /\ IF m \notin DOMAIN macros
       THEN UNCHANGED <<macros, activePlaybacks, stopFlags, sess, robot>>
       ELSE IF ~macros[m].enabled
       THEN UNCHANGED <<macros, activePlaybacks, stopFlags, sess, robot>>
       ELSE /\ \E s \in Sessions : sess[s].pc = "unused"
            /\ \E throws \in BOOLEAN :
                 LET stoppedOld == IF m \in activePlaybacks
                                   THEN SetStopped(sess, stopFlags, m) ELSE sess
                 IN  sess' = [stoppedOld EXCEPT
                                ![FreshSession] = _playbackLoop(macros[m], robot, throws)]
            /\ stopFlags' = [stopFlags EXCEPT ![m] = FreshSession]
            /\ activePlaybacks' = activePlaybacks \cup {m}
            /\ UNCHANGED <<macros, robot>>
    /\ UNCHANGED <<trigVars, configVars>>

\* a variant that leaves the stop flag in the table
playMacroCleanup_KeepsFlag(s) ==
    /\ sess[s].pc = "exited"
    /\ activePlaybacks' = activePlaybacks \ {sess[s].macroId}
    /\ sess' = [sess EXCEPT ![s].pc = "done"]
    /\ UNCHANGED <<macros, stopFlags, robot, stopRequested>>
    /\ UNCHANGED <<trigVars, configVars>>

\* playMacro after `await this._playbackLoop(...)`: a microtask
playMacroCleanup(s) ==
    /\ sess[s].pc = "exited"
    /\ activePlaybacks' = activePlaybacks \ {sess[s].macroId}
    /\ stopFlags' = [stopFlags EXCEPT ![sess[s].macroId] = 0]
    /\ sess' = [sess EXCEPT ![s].pc = "done"]
    /\ UNCHANGED <<macros, robot, stopRequested>>
    /\ UNCHANGED <<trigVars, configVars>>

stopMacro(m) ==
    /\ EventLoopIdle
    /\ sess' = SetStopped(sess, stopFlags, m)
    /\ stopRequested' = [stopRequested EXCEPT ![m] = TRUE]
    /\ UNCHANGED <<macros, activePlaybacks, stopFlags, robot>>
    /\ UNCHANGED <<trigVars, configVars>>

stopAllMacros ==
    /\ EventLoopIdle
    /\ sess' = [s \in Sessions |->
                  IF \E m \in MacroIds : stopFlags[m] = s
                  THEN StopFlagSet(sess[s]) ELSE sess[s]]
    /\ stopRequested' = [m \in MacroIds |-> stopRequested[m] \/ stopFlags[m] # 0]
    /\ UNCHANGED <<macros, activePlaybacks, stopFlags, robot>>
    /\ UNCHANGED <<trigVars, configVars>>

deleteMacro(m) ==
    /\ EventLoopIdle
    /\ IF m \in DOMAIN macros
       THEN /\ sess' = SetStopped(sess, stopFlags, m)
            /\ macros' = [k \in DOMAIN macros \ {m} |-> macros[k]]
            /\ stopRequested' = [stopRequested EXCEPT ![m] = TRUE]
       ELSE UNCHANGED <<sess, macros, stopRequested>>
    /\ UNCHANGED <<activePlaybacks, stopFlags, robot>>
    /\ UNCHANGED <<trigVars, configVars>>

\* The setTimeout of _sleep expires: the frame resumes after its await.
SleepExpires(s) ==
    /\ EventLoopIdle
    /\ sess[s].pc = "timer"
    /\ Followed(s)
    /\ \E throws \in BOOLEAN :
         sess' = [sess EXCEPT ![s] = ForNext(sess[s], robot, throws)]
    /\ UNCHANGED <<macros, activePlaybacks, stopFlags, robot, stopRequested>>
    /\ UNCHANGED <<trigVars, configVars>>

\* The continuation of an await on a settled promise runs: a microtask.
AwaitResumes(s) ==
    /\ sess[s].pc = "micro"
    /\ Followed(s)
    /\ \E throws \in BOOLEAN :
         sess' = [sess EXCEPT ![s] = ForNext(sess[s], robot, throws)]
    /\ UNCHANGED <<macros, activePlaybacks, stopFlags, robot, stopRequested>>
    /\ UNCHANGED <<trigVars, configVars>>

\* A while loop that never awaits keeps the thread: nothing else ever runs.
SpinForever(s) ==
    /\ sess[s].pc = "spin"
    /\ UNCHANGED vars

\* ------------------------------------------------------------------------
\* Macro Engine: saving and loading the catalogue
\* ------------------------------------------------------------------------
\* a || b, for a of one type with the given falsy values
OrElse(a, falsy, b) == IF a \in falsy THEN b ELSE a

\* the id uuidv4() returns when a loaded record has none
uuidv4 == "<uuidv4>"

MacroAction_toJSON(action) ==
    [actionId |-> action.actionId,
     actionType |-> action.actionType,
     deviceId |-> action.deviceId,
     inputName |-> action.inputName,
     value |-> action.value,
     duration |-> action.duration]

MacroAction_fromJSON(data) ==
    [MacroAction(uuidv4, data.actionType, Some(data.deviceId), Some(data.inputName),
                 Some(data.value), Some(data.duration))
        EXCEPT !.actionId = OrElse(data.actionId, {""}, uuidv4)]

\* createdAt and modifiedAt are left out of the model
Macro_toJSON(macro) ==
    [macroId |-> macro.macroId,
     name |-> macro.name,
     actions |-> [i \in 1..Len(macro.actions) |-> MacroAction_toJSON(macro.actions[i])],
     repeatCount |-> macro.repeatCount,
     enabled |-> macro.enabled,
     description |-> macro.description]

Macro_fromJSON(data) ==
    [Macro(uuidv4, Some(data.name)) EXCEPT
        !.macroId = OrElse(data.macroId, {""}, uuidv4),
        !.actions = [i \in 1..Len(data.actions) |-> MacroAction_fromJSON(data.actions[i])],
        !.repeatCount = OrElse(data.repeatCount, {0}, 1),
        !.enabled = data.enabled,
        !.description = OrElse(data.description, {""}, "")]

\* A null where the file should hold a record: reading a field of it throws a
\* TypeError (data.name in Macro.fromJSON, data.triggerType in Trigger.fromJSON).
NullRecord == [null |-> TRUE]
Readable(data) == "null" \notin DOMAIN data

\* Object.entries lists the keys of the parsed file in the order of the file
MacroIdOrder == <<"m1", "m2">>
EntriesOf(data) == SelectSeq(MacroIdOrder, LAMBDA id : id \in DOMAIN data)

\* the entries a loop over `entries` handles before one throws: all of them,
\* or those before the first that cannot be read
RECURSIVE ReadUpTo(_, _)
ReadUpTo(CanRead(_), entries) ==
    IF entries = <<>> THEN <<>>
    ELSE IF ~CanRead(entries[1]) THEN <<>>
    ELSE <<entries[1]>> \o ReadUpTo(CanRead, Tail(entries))

MacroEngine_toJSON(catalogue) == [id \in DOMAIN catalogue |-> Macro_toJSON(catalogue[id])]

\* this.macros.clear(), then this.macros.set(macro.macroId, macro) per entry
\* in the order of Object.entries, up to the entry whose Macro.fromJSON throws
MacroEngine_fromJSON(data) ==
    LET read == ReadUpTo(LAMBDA k : Readable(data[k]), EntriesOf(data))
        keys == {read[i] : i \in 1..Len(read)}
        loaded == [k \in keys |-> Macro_fromJSON(data[k])]
    IN  [id \in {loaded[k].macroId : k \in keys} |->
            loaded[CHOOSE k \in keys : loaded[k].macroId = id]]

\* JSON.parse(JSON.stringify(v)) is v for a value v made of strings, integers,
\* booleans, null, arrays and objects: the file holds the value
NoFile == [exists |-> FALSE, data |-> <<>>]

ConfigManagerConstructed ==
    /\ macrosFile = NoFile
    /\ savedFrom = <<>>
    /\ triggersFile = NoFile
    /\ triggersSavedFrom = <<>>

saveMacros ==
    /\ EventLoopIdle
    /\ macrosFile' = [exists |-> TRUE, data |-> MacroEngine_toJSON(macros)]
    /\ savedFrom' = macros
    /\ UNCHANGED <<triggersFile, triggersSavedFrom>>
    /\ last' = Step("saveMacros", <<>>)
    /\ UNCHANGED <<macroVars, deviceVars, fired>>
    /\ UNCHANGED <<triggers, monitoring, listeners, gamepadInterval, pressedKeys,
                   keyPressTimes, keyHoldTimers, timers, now, press, holdFires>>

loadMacros ==
    /\ EventLoopIdle
    /\ macros' = IF macrosFile.exists THEN MacroEngine_fromJSON(macrosFile.data) ELSE macros
    /\ last' = Step("loadMacros", <<>>)
    /\ UNCHANGED <<activePlaybacks, stopFlags, sess, robot, stopRequested>>
    /\ UNCHANGED <<configVars, deviceVars, fired>>
    /\ UNCHANGED <<triggers, monitoring, listeners, gamepadInterval, pressedKeys,
                   keyPressTimes, keyHoldTimers, timers, now, press, holdFires>>

\* the repeat-count field of the selected macro changes
updateRepeatCount(m, value) ==
    /\ EventLoopIdle
    /\ m \in DOMAIN macros
    /\ macros' = [macros EXCEPT ![m].repeatCount = value]
    /\ last' = Step("updateRepeatCount", m)
    /\ UNCHANGED <<activePlaybacks, stopFlags, sess, robot, stopRequested>>
    /\ UNCHANGED <<configVars, deviceVars, fired>>
    /\ UNCHANGED <<triggers, monitoring, listeners, gamepadInterval, pressedKeys,
                   keyPressTimes, keyHoldTimers, timers, now, press, holdFires>>

\* ------------------------------------------------------------------------
\* Device Manager
\* ------------------------------------------------------------------------
GamepadIdx == {0}
NoGamepad == [connected |-> FALSE, buttons |-> <<>>, axes |-> <<>>]

\* `joystick_${i}` and parseInt(deviceId.split('_')[1])
JoystickId(i) == IF i = 0 THEN "joystick_0" ELSE "joystick_1"
JoystickIndex(d) == IF d = "joystick_0" THEN 0 ELSE 1
KeyboardId == "keyboard_0"
DeviceIds == {KeyboardId} \cup {JoystickId(i) : i \in GamepadIdx}

\* Device.deviceType, as _scanKeyboards and _scanGamepads assign it
IsJoystick(d) == d \in {JoystickId(i) : i \in GamepadIdx}

\* _scanDevices: devices.clear(), then the keyboard and every gamepad present
\* are added to devices and set enabled
ScannedDevices(gp) == {KeyboardId} \cup {JoystickId(i) : i \in {j \in GamepadIdx : gp[j].connected}}

ScannedEnabled(en, gp) ==
    [d \in (DOMAIN en) \cup ScannedDevices(gp) |->
        IF d \in ScannedDevices(gp) THEN TRUE ELSE en[d]]

DeviceManagerConstructed(gp) ==
    /\ gamepads = gp
    /\ devices = ScannedDevices(gp)
    /\ enabledDevices = ScannedEnabled(<<>>, gp)

\* this.enabledDevices.get(deviceId) || false
isDeviceEnabled(d) == d \in DOMAIN enabledDevices /\ enabledDevices[d]

isDeviceConnected(d) ==
    IF d \notin devices THEN FALSE
    ELSE IF IsJoystick(d) THEN gamepads[JoystickIndex(d)].connected
    ELSE d = KeyboardId

shouldProcessDeviceInput(d) == isDeviceConnected(d) /\ isDeviceEnabled(d)

setDeviceEnabled(d, enabled) ==
    /\ EventLoopIdle
    /\ IF d \in devices
       THEN enabledDevices' = [x \in (DOMAIN enabledDevices) \cup {d} |->
                                 IF x = d THEN enabled ELSE enabledDevices[x]]
       ELSE UNCHANGED enabledDevices
    /\ fired' = <<>>
    /\ last' = Step("setDeviceEnabled", d)
    /\ UNCHANGED <<devices, gamepads, macroVars, configVars>>
    /\ UNCHANGED <<triggers, monitoring, listeners, gamepadInterval, pressedKeys,
                   keyPressTimes, keyHoldTimers, timers, now, press, holdFires>>

\* ------------------------------------------------------------------------
\* Trigger Engine: data
\* ------------------------------------------------------------------------
\* TriggerType
KEY_PRESS == "key_press"
KEY_HOLD == "key_hold"
KEY_DOUBLE_TAP == "key_double_tap"
KEY_COMBO == "key_combo"
TRIG_JOYSTICK_BUTTON == "joystick_button"
TRIG_JOYSTICK_AXIS == "joystick_axis"

\* Input names are strings read character by character (String.includes,
\* template literals): a name is the tuple of its characters.
KeyA == <<"a">>
KeyB == <<"b">>
Keys == {KeyA, KeyB}

TriggerIds == {"t1", "t2", "t3"}

DefaultAxisThreshold == 50   \* 0.5, in hundredths
DefaultHoldDuration == 500
DefaultDoubleTapWindow == 300
PressTimeHorizon == 1000

\* new Trigger(triggerType, macroId, deviceId = null, inputName = '')
Trigger(uuid, triggerType, macroId, deviceId, inputName) ==
    [triggerId |-> uuid,
     triggerType |-> triggerType,
     macroId |-> macroId,
     deviceId |-> DefaultParam(deviceId, Null),
     inputName |-> DefaultParam(inputName, <<>>),
     modifiers |-> <<>>,
     axisThreshold |-> DefaultAxisThreshold,
     holdDuration |-> DefaultHoldDuration,
     doubleTapWindow |-> DefaultDoubleTapWindow,
     enabled |-> TRUE]

\* a value in a condition: null, undefined and '' are falsy
TruthyString(x) == x # Null /\ x # ""

\* per key: its last DOM event; the times of the last two downs the engine
\* handled since monitoring started (-1: none) and of the last up; whether
\* the last down was handled, was no repeat and monitoring stayed on since;
\* the hold triggers that down armed and the last of them
NoPress ==
    [event |-> "none", at |-> -1, prev |-> -1, upAt |-> -1, clean |-> FALSE,
     armed |-> {}, winner |-> ""]

TriggerEngineConstructed(catalogue) ==
    /\ triggers = catalogue
    /\ monitoring = FALSE
    /\ listeners = 0
    /\ gamepadInterval = FALSE
    /\ pressedKeys = {}
    /\ keyPressTimes = [k \in Keys |-> <<>>]
    /\ keyHoldTimers = [k \in Keys |-> 0]
    /\ timers = {}
    /\ now = 0
    /\ fired = <<>>
    /\ press = [k \in Keys |-> NoPress]
    /\ holdFires = [id \in TriggerIds |-> 0]
    /\ last = Step("constructor", <<>>)

\* the engine state a key handler reads and writes
EngineState ==
    [pressedKeys |-> pressedKeys, keyPressTimes |-> keyPressTimes,
     keyHoldTimers |-> keyHoldTimers, timers |-> timers, fired |-> <<>>]

\* ------------------------------------------------------------------------
\* Trigger Engine: key handlers, as functions of the engine state E
\* ------------------------------------------------------------------------
\* this.macroEngine.playMacro(trigger.macroId); the call is recorded
_activateTrigger(E, trigger, via) ==
    [E EXCEPT !.fired = Append(E.fired,
        [triggerId |-> trigger.triggerId, macroId |-> trigger.macroId,
         input |-> trigger.inputName, via |-> via])]

\* a variant that asks whether a press of the modifier is on record, not
\* whether the modifier is held
_checkModifiers_EverPressed(E, modifiers) ==
    \A i \in 1..Len(modifiers) : E.keyPressTimes[modifiers[i]] # <<>>

_checkModifiers(E, modifiers) ==
    \A i \in 1..Len(modifiers) : modifiers[i] \in E.pressedKeys

\* clearTimeout(handle)
ClearTimeout(E, handle) == [E EXCEPT !.timers = {tm \in E.timers : tm.id # handle}]

\* a handle setTimeout has not returned before to anything still holding it
FreshHandle(E) ==
    CHOOSE h \in 1..(Cardinality(Keys) + Cardinality(E.timers) + 1) :
        /\ \A tm \in E.timers : tm.id # h
        /\ \A k \in Keys : E.keyHoldTimers[k] # h
        /\ \A g \in 1..(h - 1) :
             (\E tm \in E.timers : tm.id = g) \/ (\E k \in Keys : E.keyHoldTimers[k] = g)

\* a variant that sets the timer with no delay
HoldDeadline_Immediate(t, trigger) == t

\* setTimeout(..., trigger.holdDuration), called at time t
HoldDeadline(t, trigger) == t + trigger.holdDuration

\* a variant that sets the new timer without clearing the one in the table
_setupHoldTimer_Stacks(E, trigger, key, t) ==
    LET h == FreshHandle(E)
    IN  [E EXCEPT
            !.timers = E.timers \cup
                {[id |-> h, trigger |-> trigger, key |-> key,
                  deadline |-> HoldDeadline(t, trigger)]},
            !.keyHoldTimers = [E.keyHoldTimers EXCEPT ![key] = h]]

_setupHoldTimer(E, trigger, key, t) ==
    LET cleared == IF E.keyHoldTimers[key] # 0
                   THEN ClearTimeout(E, E.keyHoldTimers[key]) ELSE E
        h == FreshHandle(cleared)
    IN  [cleared EXCEPT
            !.timers = cleared.timers \cup
                {[id |-> h, trigger |-> trigger, key |-> key,
                  deadline |-> HoldDeadline(t, trigger)]},
            !.keyHoldTimers = [cleared.keyHoldTimers EXCEPT ![key] = h]]

_checkDoubleTap(E, key, window) ==
    LET times == E.keyPressTimes[key]
    IN  IF Len(times) < 2 THEN FALSE
        ELSE times[Len(times)] - times[Len(times) - 1] <= window

InHorizon(t, x) == t - x < PressTimeHorizon

_cleanupPressTimes(E, key, t) ==
    [E EXCEPT !.keyPressTimes =
        [E.keyPressTimes EXCEPT ![key] = SelectSeq(E.keyPressTimes[key], LAMBDA x : InHorizon(t, x))]]

\* the body of the for loop of _checkKeyTriggers for one trigger
CheckKeyTrigger(E, trigger, key, t) ==
    IF ~trigger.enabled THEN E
    ELSE IF TruthyString(trigger.deviceId) /\ ~shouldProcessDeviceInput(trigger.deviceId) THEN E
    ELSE LET e1 == IF trigger.triggerType = KEY_PRESS /\ trigger.inputName = key
                   THEN _activateTrigger(E, trigger, <<"key">>) ELSE E
             e2 == IF trigger.triggerType = KEY_COMBO /\ trigger.inputName = key
                      /\ _checkModifiers(e1, trigger.modifiers)
                   THEN _activateTrigger(e1, trigger, <<"key">>) ELSE e1
             e3 == IF trigger.triggerType = KEY_HOLD /\ trigger.inputName = key
                   THEN _setupHoldTimer(e2, trigger, key, t) ELSE e2
             e4 == IF trigger.triggerType = KEY_DOUBLE_TAP /\ trigger.inputName = key
                      /\ _checkDoubleTap(e3, key, trigger.doubleTapWindow)
                   THEN _activateTrigger(e3, trigger, <<"key">>) ELSE e3
         IN  e4

\* a variant that stops at the first trigger the event has an effect on
RECURSIVE _checkKeyTriggers_FirstMatchWins(_, _, _, _, _)
_checkKeyTriggers_FirstMatchWins(E, cat, key, t, i) ==
    IF i > Len(cat) THEN E
    ELSE IF CheckKeyTrigger(E, cat[i], key, t) # E
         THEN CheckKeyTrigger(E, cat[i], key, t)
         ELSE _checkKeyTriggers_FirstMatchWins(E, cat, key, t, i + 1)

\* for (const trigger of this.triggers.values()), from the i-th on
RECURSIVE _checkKeyTriggers(_, _, _, _, _)
_checkKeyTriggers(E, cat, key, t, i) ==
    IF i > Len(cat) THEN E
    ELSE _checkKeyTriggers(CheckKeyTrigger(E, cat[i], key, t), cat, key, t, i + 1)

\* a variant without the `if (!this.monitoring) return`
_handleKeyDown_IgnoresMonitoring(E, cat, mon, key, t) ==
    LET e1 == [E EXCEPT !.pressedKeys = E.pressedKeys \cup {key}]
        e2 == [e1 EXCEPT !.keyPressTimes =
                  [e1.keyPressTimes EXCEPT ![key] = Append(e1.keyPressTimes[key], t)]]
        e3 == _cleanupPressTimes(e2, key, t)
    IN  _checkKeyTriggers(e3, cat, key, t, 1)

_handleKeyDown(E, cat, mon, key, t) ==
    IF ~mon THEN E
    ELSE LET e1 == [E EXCEPT !.pressedKeys = E.pressedKeys \cup {key}]
             e2 == [e1 EXCEPT !.keyPressTimes =
                       [e1.keyPressTimes EXCEPT ![key] = Append(e1.keyPressTimes[key], t)]]
             e3 == _cleanupPressTimes(e2, key, t)
         IN  _checkKeyTriggers(e3, cat, key, t, 1)

\* a variant that forgets the timer's handle without clearTimeout
_handleKeyUp_KeepsTimer(E, mon, key) ==
    IF ~mon THEN E
    ELSE [E EXCEPT !.pressedKeys = E.pressedKeys \ {key},
                   !.keyHoldTimers = [E.keyHoldTimers EXCEPT ![key] = 0]]

_handleKeyUp(E, mon, key) ==
    IF ~mon THEN E
    ELSE LET e1 == [E EXCEPT !.pressedKeys = E.pressedKeys \ {key}]
         IN  IF e1.keyHoldTimers[key] # 0
             THEN [ClearTimeout(e1, e1.keyHoldTimers[key]) EXCEPT
                      !.keyHoldTimers = [e1.keyHoldTimers EXCEPT ![key] = 0]]
             ELSE e1

\* document dispatches an event to each registered listener in turn
RECURSIVE DispatchKeyDown(_, _, _, _, _, _)
DispatchKeyDown(n, E, cat, mon, key, t) ==
    IF n = 0 THEN E
    ELSE DispatchKeyDown(n - 1, _handleKeyDown(E, cat, mon, key, t), cat, mon, key, t)

RECURSIVE DispatchKeyUp(_, _, _, _)
DispatchKeyUp(n, E, mon, key) ==
    IF n = 0 THEN E ELSE DispatchKeyUp(n - 1, _handleKeyUp(E, mon, key), mon, key)

\* ------------------------------------------------------------------------
\* Trigger Engine: operations
\* ------------------------------------------------------------------------
\* the clock advances by at most TickStep at a time and stops at MaxTime (ms)
TickStep == DefaultHoldDuration
MaxTime == MaxTicks * TickStep

SeqMin(S) == CHOOSE x \in S : \A y \in S : x <= y
SeqMax(S) == CHOOSE x \in S : \A y \in S : x >= y

\* the hold triggers a handled keydown of `key` arms, by catalogue position
ArmedPositions(cat, key) ==
    {i \in 1..Len(cat) :
        /\ cat[i].triggerType = KEY_HOLD /\ cat[i].inputName = key
        /\ cat[i].enabled
        /\ ~(TruthyString(cat[i].deviceId) /\ ~shouldProcessDeviceInput(cat[i].deviceId))}

\* The clock advances, never past the expiry of a scheduled timer: a due
\* timer's callback is the next or one of the next macrotasks.
Tick ==
    /\ EventLoopIdle
    /\ \A tm \in timers : tm.deadline > now
    /\ now' = SeqMin({now + TickStep} \cup {tm.deadline : tm \in timers})
    /\ now' <= MaxTime
    /\ fired' = <<>>
    /\ last' = Step("Tick", <<>>)
    /\ UNCHANGED <<triggers, monitoring, listeners, gamepadInterval, pressedKeys,
                   keyPressTimes, keyHoldTimers, timers, press, holdFires>>
    /\ UNCHANGED <<deviceVars, macroVars, configVars>>

\* a keydown event on document
KeyDown(key) ==
    /\ EventLoopIdle
    /\ Len(keyPressTimes[key]) < MaxPresses
    /\ LET E == DispatchKeyDown(listeners, EngineState, triggers, monitoring, key, now)
           handled == monitoring /\ listeners > 0
           armed == IF handled THEN ArmedPositions(triggers, key) ELSE {}
       IN  /\ pressedKeys' = E.pressedKeys
           /\ keyPressTimes' = E.keyPressTimes
           /\ keyHoldTimers' = E.keyHoldTimers
           /\ timers' = E.timers
           /\ fired' = E.fired
           /\ press' = [press EXCEPT ![key] =
                  [event |-> "down",
                   at |-> IF handled THEN now ELSE press[key].at,
                   prev |-> IF handled THEN press[key].at ELSE press[key].prev,
                   upAt |-> press[key].upAt,
                   clean |-> handled /\ press[key].event # "down",
                   armed |-> {triggers[i].triggerId : i \in armed},
                   winner |-> IF armed = {} THEN "" ELSE triggers[SeqMax(armed)].triggerId]]
           /\ last' = Step("KeyDown", key)
           /\ holdFires' = [id \in TriggerIds |->
                  IF \E i \in 1..Len(triggers) :
                        triggers[i].triggerId = id /\ triggers[i].inputName = key
                  THEN 0 ELSE holdFires[id]]
    /\ UNCHANGED <<triggers, monitoring, listeners, gamepadInterval, now>>
    /\ UNCHANGED <<deviceVars, macroVars, configVars>>

\* a keyup event on document
KeyUp(key) ==
    /\ EventLoopIdle
    /\ LET E == DispatchKeyUp(listeners, EngineState, monitoring, key)
       IN  /\ pressedKeys' = E.pressedKeys
           /\ keyHoldTimers' = E.keyHoldTimers
           /\ timers' = E.timers
           /\ fired' = E.fired
    /\ press' = [press EXCEPT ![key].event = "up",
                              ![key].upAt = IF press[key].event = "down" THEN now ELSE @]
    /\ last' = Step("KeyUp", key)
    /\ UNCHANGED <<triggers, monitoring, listeners, gamepadInterval, keyPressTimes,
                   now, holdFires>>
    /\ UNCHANGED <<deviceVars, macroVars, configVars>>

\* the callback _setupHoldTimer gave setTimeout
HoldTimerCallback(E, tm) ==
    LET e1 == IF tm.key \in E.pressedKeys
              THEN _activateTrigger(E, tm.trigger, <<"hold">>) ELSE E
    IN  [e1 EXCEPT !.keyHoldTimers = [e1.keyHoldTimers EXCEPT ![tm.key] = 0]]

\* a scheduled hold timer expires and its callback runs
HoldTimerExpires(tm) ==
    /\ EventLoopIdle
    /\ tm \in timers
    /\ tm.deadline <= now
    /\ LET E == HoldTimerCallback([EngineState EXCEPT !.timers = timers \ {tm}], tm)
       IN  /\ keyHoldTimers' = E.keyHoldTimers
           /\ timers' = E.timers
           /\ fired' = E.fired
           /\ holdFires' = IF E.fired # <<>> /\ holdFires[tm.trigger.triggerId] < 2
                           THEN [holdFires EXCEPT ![tm.trigger.triggerId] = @ + 1]
                           ELSE holdFires
    /\ last' = Step("HoldTimerExpires", tm.key)
    /\ UNCHANGED <<triggers, monitoring, listeners, gamepadInterval, pressedKeys,
                   keyPressTimes, now, press>>
    /\ UNCHANGED <<deviceVars, macroVars, configVars>>

\* _startKeyboardMonitoring: addEventListener with two new bound functions
_startKeyboardMonitoring(n) == n + 1

\* _stopKeyboardMonitoring: removeEventListener is given two new bound
\* functions, which are no registered listener: nothing is removed
_stopKeyboardMonitoring(n) == n

startMonitoring ==
    /\ EventLoopIdle
    /\ listeners < MaxStarts
    /\ IF monitoring
       THEN UNCHANGED <<monitoring, listeners, gamepadInterval>>
       ELSE /\ monitoring' = TRUE
            /\ listeners' = _startKeyboardMonitoring(listeners)
            /\ gamepadInterval' = TRUE
    /\ fired' = <<>>
    /\ last' = Step("startMonitoring", <<>>)
    /\ UNCHANGED <<triggers, pressedKeys, keyPressTimes, keyHoldTimers, timers, now,
                   press, holdFires>>
    /\ UNCHANGED <<deviceVars, macroVars, configVars>>

\* a variant that empties the timer table without clearTimeout
stopMonitoring_KeepsTimers ==
    /\ EventLoopIdle
    /\ IF ~monitoring
       THEN UNCHANGED <<monitoring, listeners, gamepadInterval, pressedKeys,
                        keyPressTimes, keyHoldTimers, timers, press>>
       ELSE /\ monitoring' = FALSE
            /\ listeners' = _stopKeyboardMonitoring(listeners)
            /\ gamepadInterval' = FALSE
            /\ pressedKeys' = {}
            /\ keyPressTimes' = [k \in Keys |-> <<>>]
            /\ timers' = timers
            /\ keyHoldTimers' = [k \in Keys |-> 0]
            /\ press' = [k \in Keys |->
                   [press[k] EXCEPT !.clean = FALSE, !.at = -1, !.prev = -1]]
    /\ fired' = <<>>
    /\ last' = Step("stopMonitoring", <<>>)
    /\ UNCHANGED <<triggers, now, holdFires>>
    /\ UNCHANGED <<deviceVars, macroVars, configVars>>

\* a variant without `this.pressedKeys.clear()`
stopMonitoring_KeepsHeldKeys ==
    /\ EventLoopIdle
    /\ IF ~monitoring
       THEN UNCHANGED <<monitoring, listeners, gamepadInterval, pressedKeys,
                        keyPressTimes, keyHoldTimers, timers, press>>
       ELSE /\ monitoring' = FALSE
            /\ listeners' = _stopKeyboardMonitoring(listeners)
            /\ gamepadInterval' = FALSE
            /\ pressedKeys' = pressedKeys
            /\ keyPressTimes' = [k \in Keys |-> <<>>]
            /\ timers' = {tm \in timers : \A k \in Keys : keyHoldTimers[k] # tm.id}
            /\ keyHoldTimers' = [k \in Keys |-> 0]
            /\ press' = [k \in Keys |->
                   [press[k] EXCEPT !.clean = FALSE, !.at = -1, !.prev = -1]]
    /\ fired' = <<>>
    /\ last' = Step("stopMonitoring", <<>>)
    /\ UNCHANGED <<triggers, now, holdFires>>
    /\ UNCHANGED <<deviceVars, macroVars, configVars>>

stopMonitoring ==
    /\ EventLoopIdle
    /\ IF ~monitoring
       THEN UNCHANGED <<monitoring, listeners, gamepadInterval, pressedKeys,
                        keyPressTimes, keyHoldTimers, timers, press>>
       ELSE /\ monitoring' = FALSE
            /\ listeners' = _stopKeyboardMonitoring(listeners)
            /\ gamepadInterval' = FALSE
            /\ pressedKeys' = {}
            /\ keyPressTimes' = [k \in Keys |-> <<>>]
            /\ timers' = {tm \in timers : \A k \in Keys : keyHoldTimers[k] # tm.id}
            /\ keyHoldTimers' = [k \in Keys |-> 0]
            /\ press' = [k \in Keys |->
                   [press[k] EXCEPT !.clean = FALSE, !.at = -1, !.prev = -1]]
    /\ fired' = <<>>
    /\ last' = Step("stopMonitoring", <<>>)
    /\ UNCHANGED <<triggers, now, holdFires>>
    /\ UNCHANGED <<deviceVars, macroVars, configVars>>

\* a variant that first cancels the hold timers of the inputs of the deleted
\* trigger
deleteTrigger_CancelsInputTimer(id) ==
    /\ EventLoopIdle
    /\ triggers' = SelectSeq(triggers, LAMBDA tr : tr.triggerId # id)
    /\ LET inputs == {triggers[i].inputName :
                        i \in {j \in 1..Len(triggers) : triggers[j].triggerId = id}}
       IN  /\ timers' = {tm \in timers : tm.key \notin inputs}
           /\ keyHoldTimers' = [k \in Keys |->
                                  IF k \in inputs THEN 0 ELSE keyHoldTimers[k]]
    /\ fired' = <<>>
    /\ last' = Step("deleteTrigger", id)
    /\ UNCHANGED <<monitoring, listeners, gamepadInterval, pressedKeys, keyPressTimes,
                   now, press, holdFires>>
    /\ UNCHANGED <<deviceVars, macroVars, configVars>>

deleteTrigger(id) ==
    /\ EventLoopIdle
    /\ triggers' = SelectSeq(triggers, LAMBDA tr : tr.triggerId # id)
    /\ fired' = <<>>
    /\ last' = Step("deleteTrigger", id)
    /\ UNCHANGED <<monitoring, listeners, gamepadInterval, pressedKeys, keyPressTimes,
                   keyHoldTimers, timers, now, press, holdFires>>
    /\ UNCHANGED <<deviceVars, macroVars, configVars>>

\* ------------------------------------------------------------------------
\* Trigger Engine: gamepad polling
\* ------------------------------------------------------------------------
Abs(v) == IF v < 0 THEN -v ELSE v

Digit(d) == <<"0", "1", "2", "3", "4", "5", "6", "7", "8", "9">>[d + 1]

\* `${n}` for an index n >= 0
RECURSIVE Decimal(_)
Decimal(n) == IF n < 10 THEN <<Digit(n)>> ELSE Decimal(n \div 10) \o <<Digit(n % 10)>>

\* `Axis ${axisIndex}` and `Button ${buttonIndex}`
AxisName(axisIndex) == <<"A", "x", "i", "s", " ">> \o Decimal(axisIndex)
ButtonName(buttonIndex) == <<"B", "u", "t", "t", "o", "n", " ">> \o Decimal(buttonIndex)

\* String.prototype.includes
Includes(hay, needle) ==
    \E s \in 0..(Len(hay) - Len(needle)) :
        \A i \in 1..Len(needle) : hay[s + i] = needle[i]

\* a variant that wants the value beyond the threshold
ExceedsThreshold_Strict(axisValue, threshold) == Abs(axisValue) > threshold

\* Math.abs(axisValue) >= trigger.axisThreshold
ExceedsThreshold(axisValue, threshold) == Abs(axisValue) >= threshold

\* for (const trigger of this.triggers.values()), from the i-th on
RECURSIVE _checkJoystickButtonTriggers(_, _, _, _, _)
_checkJoystickButtonTriggers(E, cat, deviceId, buttonIndex, i) ==
    IF i > Len(cat) THEN E
    ELSE LET trigger == cat[i]
             e1 == IF /\ trigger.enabled
                      /\ trigger.triggerType = TRIG_JOYSTICK_BUTTON
                      /\ trigger.deviceId = deviceId
                      /\ trigger.inputName = ButtonName(buttonIndex)
                   THEN _activateTrigger(E, trigger, <<"button", buttonIndex>>) ELSE E
         IN  _checkJoystickButtonTriggers(e1, cat, deviceId, buttonIndex, i + 1)

RECURSIVE _checkJoystickAxisTriggers(_, _, _, _, _, _)
_checkJoystickAxisTriggers(E, cat, deviceId, axisIndex, axisValue, i) ==
    IF i > Len(cat) THEN E
    ELSE LET trigger == cat[i]
             e1 == IF /\ trigger.enabled
                      /\ trigger.triggerType = TRIG_JOYSTICK_AXIS
                      /\ trigger.deviceId = deviceId
                      /\ Includes(trigger.inputName, AxisName(axisIndex))
                      /\ ExceedsThreshold(axisValue, trigger.axisThreshold)
                   THEN _activateTrigger(E, trigger, <<"axis", axisIndex>>) ELSE E
         IN  _checkJoystickAxisTriggers(e1, cat, deviceId, axisIndex, axisValue, i + 1)

\* for (let j = 0; j < gamepad.buttons.length; j++), from j on
RECURSIVE PollButtons(_, _, _, _, _)
PollButtons(E, cat, deviceId, gamepad, j) ==
    IF j >= Len(gamepad.buttons) THEN E
    ELSE PollButtons(IF gamepad.buttons[j + 1]
                     THEN _checkJoystickButtonTriggers(E, cat, deviceId, j, 1) ELSE E,
                     cat, deviceId, gamepad, j + 1)

\* for (let j = 0; j < gamepad.axes.length; j++), from j on
RECURSIVE PollAxes(_, _, _, _, _)
PollAxes(E, cat, deviceId, gamepad, j) ==
    IF j >= Len(gamepad.axes) THEN E
    ELSE PollAxes(_checkJoystickAxisTriggers(E, cat, deviceId, j, gamepad.axes[j + 1], 1),
                  cat, deviceId, gamepad, j + 1)

\* for (let i = 0; i < gamepads.length; i++), from i on
RECURSIVE PollFrom(_, _, _)
PollFrom(E, cat, i) ==
    IF i \notin GamepadIdx THEN E
    ELSE IF ~gamepads[i].connected THEN PollFrom(E, cat, i + 1)
    ELSE IF ~shouldProcessDeviceInput(JoystickId(i)) THEN PollFrom(E, cat, i + 1)
    ELSE PollFrom(PollAxes(PollButtons(E, cat, JoystickId(i), gamepads[i], 0),
                           cat, JoystickId(i), gamepads[i], 0),
                  cat, i + 1)

_pollGamepads(E, cat, mon) == IF ~mon THEN E ELSE PollFrom(E, cat, 0)

\* the polls since the last other step, counted up to two
PollsInARow == IF last.op = "_pollGamepads" THEN 2 ELSE 1

\* the callback of the interval _startGamepadMonitoring set
PollGamepads ==
    /\ EventLoopIdle
    /\ gamepadInterval
    /\ fired' = _pollGamepads(EngineState, triggers, monitoring).fired
    /\ last' = Step("_pollGamepads", PollsInARow)
    /\ UNCHANGED <<triggers, monitoring, listeners, gamepadInterval, pressedKeys,
                   keyPressTimes, keyHoldTimers, timers, now, press, holdFires>>
    /\ UNCHANGED <<deviceVars, macroVars, configVars>>

\* what navigator.getGamepads() can hold for a connected gamepad
AxisSamples == {20, 50, -70}

Gamepads ==
    [connected : {TRUE},
     buttons : [1..NumButtons -> BOOLEAN],
     axes : [1..NumAxes -> AxisSamples]]

\* the 'gamepadconnected' listener of the DeviceManager
GamepadConnected(i, gamepad) ==
    /\ EventLoopIdle
    /\ ~gamepads[i].connected
    /\ gamepads' = [gamepads EXCEPT ![i] = gamepad]
    /\ devices' = ScannedDevices(gamepads')
    /\ enabledDevices' = ScannedEnabled(enabledDevices, gamepads')
    /\ fired' = <<>>
    /\ last' = Step("gamepadconnected", i)
    /\ UNCHANGED <<triggers, monitoring, listeners, gamepadInterval, pressedKeys,
                   keyPressTimes, keyHoldTimers, timers, now, press, holdFires>>
    /\ UNCHANGED <<macroVars, configVars>>

\* the 'gamepaddisconnected' listener of the DeviceManager
GamepadDisconnected(i) ==
    /\ EventLoopIdle
    /\ gamepads[i].connected
    /\ gamepads' = [gamepads EXCEPT ![i] = NoGamepad]
    /\ devices' = ScannedDevices(gamepads')
    /\ enabledDevices' = ScannedEnabled(enabledDevices, gamepads')
    /\ fired' = <<>>
    /\ last' = Step("gamepaddisconnected", i)
    /\ UNCHANGED <<triggers, monitoring, listeners, gamepadInterval, pressedKeys,
                   keyPressTimes, keyHoldTimers, timers, now, press, holdFires>>
    /\ UNCHANGED <<macroVars, configVars>>

\* the buttons and axes in which two gamepad states differ
Differences(g, h) ==
    Cardinality({j \in 1..NumButtons : g.buttons[j] # h.buttons[j]})
        + Cardinality({j \in 1..NumAxes : g.axes[j] # h.axes[j]})

\* the user moves one stick or one button: no event reaches the program
GamepadInput(i, gamepad) ==
    /\ EventLoopIdle
    /\ gamepads[i].connected
    /\ Differences(gamepad, gamepads[i]) = 1
    /\ gamepads' = [gamepads EXCEPT ![i] = gamepad]
    /\ fired' = <<>>
    /\ last' = Step("input", i)
    /\ UNCHANGED <<triggers, monitoring, listeners, gamepadInterval, pressedKeys,
                   keyPressTimes, keyHoldTimers, timers, now, press, holdFires>>
    /\ UNCHANGED <<devices, enabledDevices, macroVars, configVars>>

\* ------------------------------------------------------------------------
\* Trigger Engine: the key specifications
\* ------------------------------------------------------------------------
\* a trigger as created and then configured
ConfiguredTrigger(id, ty, dev, key, mods, hold, window) ==
    [Trigger(id, ty, id, dev, Some(key)) EXCEPT
        !.modifiers = mods, !.holdDuration = hold, !.doubleTapWindow = window]

DrawnHoldDurations == {DefaultHoldDuration, 2 * DefaultHoldDuration}
DrawnWindows == {DefaultDoubleTapWindow, TickStep, PressTimeHorizon}

\* the triggers the key specifications draw: as the trigger form creates
\* them on the keyboard, all on one key
HoldTriggers(id) ==
    {ConfiguredTrigger(id, KEY_HOLD, Some(KeyboardId), KeyA, <<>>, hold,
                       DefaultDoubleTapWindow) : hold \in DrawnHoldDurations}

DoubleTapTriggers(id) ==
    {ConfiguredTrigger(id, KEY_DOUBLE_TAP, Some(KeyboardId), KeyA, <<>>,
                       DefaultHoldDuration, w) : w \in DrawnWindows}

TriggerIdOf(i) == IF i = 1 THEN "t1" ELSE IF i = 2 THEN "t2" ELSE "t3"

\* the catalogues of 1..n triggers, the i-th drawn from Drawn(TriggerIdOf(i))
RECURSIVE DrawnCatalogues(_, _)
DrawnCatalogues(Drawn(_), n) ==
    IF n = 0 THEN {}
    ELSE IF n = 1 THEN {<<tr>> : tr \in Drawn(TriggerIdOf(1))}
    ELSE LET shorter == DrawnCatalogues(Drawn, n - 1)
         IN  shorter \cup
             {Append(cat, tr) : cat \in {c \in shorter : Len(c) = n - 1},
                                tr \in Drawn(TriggerIdOf(n))}

MacroEngineIdle ==
    /\ macros = <<>>
    /\ activePlaybacks = {}
    /\ stopFlags = [m \in MacroIds |-> 0]
    /\ sess = [s \in Sessions |-> UnusedSession]
    /\ robot = FALSE
    /\ stopRequested = [m \in MacroIds |-> FALSE]

\* the keys the key specifications press
TouchedKeys == {KeyA}

HoldInit ==
    /\ MacroEngineIdle
    /\ \E cat \in DrawnCatalogues(HoldTriggers, MaxTriggers) :
          TriggerEngineConstructed(cat)
    /\ DeviceManagerConstructed([i \in GamepadIdx |-> NoGamepad])
    /\ ConfigManagerConstructed

HoldNext ==
    \/ Tick
    \/ \E key \in TouchedKeys : KeyDown(key)
    \/ \E key \in TouchedKeys : KeyUp(key)
    \/ \E tm \in timers : HoldTimerExpires(tm)
    \/ startMonitoring
    \/ stopMonitoring
    \/ \E id \in TriggerIds : deleteTrigger(id)

SpecHold == HoldInit /\ [][HoldNext]_vars

TapInit ==
    /\ MacroEngineIdle
    /\ \E cat \in DrawnCatalogues(DoubleTapTriggers, MaxTriggers) :
          TriggerEngineConstructed(cat)
    /\ DeviceManagerConstructed([i \in GamepadIdx |-> NoGamepad])
    /\ ConfigManagerConstructed

TapNext ==
    \/ Tick
    \/ \E key \in TouchedKeys : KeyDown(key)
    \/ \E key \in TouchedKeys : KeyUp(key)
    \/ startMonitoring
    \/ stopMonitoring

SpecTap == TapInit /\ [][TapNext]_vars

\* ------------------------------------------------------------------------
\* Trigger Engine: the joystick specification
\* ------------------------------------------------------------------------
DrawnThresholds == {DefaultAxisThreshold, 70}

AxisTriggers(id, axes) ==
    {[Trigger(id, TRIG_JOYSTICK_AXIS, Some(id), Some(JoystickId(0)), Some(AxisName(j)))
        EXCEPT !.axisThreshold = thr] : j \in axes, thr \in DrawnThresholds}

ButtonTriggers(id) ==
    {Trigger(id, TRIG_JOYSTICK_BUTTON, Some(id), Some(JoystickId(0)), Some(ButtonName(0)))}

\* the catalogues the joystick specification draws: a trigger on axis 0,
\* alone or followed by a trigger on any axis or by a button trigger
JoystickCatalogues ==
    {<<tr>> : tr \in AxisTriggers("t1", {0})}
    \cup {<<tr, other>> : tr \in AxisTriggers("t1", {0}),
                          other \in AxisTriggers("t2", 0..(NumAxes - 1))
                                       \cup ButtonTriggers("t2")}

JoyInit ==
    /\ MacroEngineIdle
    /\ \E cat \in JoystickCatalogues : TriggerEngineConstructed(cat)
    /\ DeviceManagerConstructed([i \in GamepadIdx |-> NoGamepad])
    /\ ConfigManagerConstructed

JoyNext ==
    \/ PollGamepads
    \/ \E i \in GamepadIdx, gamepad \in Gamepads : GamepadConnected(i, gamepad)
    \/ \E i \in GamepadIdx : GamepadDisconnected(i)
    \/ \E i \in GamepadIdx, gamepad \in Gamepads : GamepadInput(i, gamepad)
    \/ \E enabled \in BOOLEAN : setDeviceEnabled(JoystickId(0), enabled)
    \/ startMonitoring
    \/ stopMonitoring

SpecJoy == JoyInit /\ [][JoyNext]_vars

\* ------------------------------------------------------------------------
\* The specification of a gamepad with many axes: the sticks behind axis 1 and
\* behind the highest axis move, the other axes rest
\* ------------------------------------------------------------------------
WideAxes(low, high) ==
    [j \in 1..(MaxAxisIndex + 1) |->
        IF j - 1 = 1 THEN low ELSE IF j - 1 = MaxAxisIndex THEN high ELSE 0]

WideGamepads ==
    {[connected |-> TRUE, buttons |-> b, axes |-> WideAxes(low, high)]
        : b \in [1..NumButtons -> BOOLEAN], low \in {0, 70}, high \in {0, 70}}

\* a trigger on axis 1 or on the highest axis, alone or before a button trigger
WideCatalogues ==
    {<<tr>> : tr \in AxisTriggers("t1", {1, MaxAxisIndex})}
    \cup {<<tr, other>> : tr \in AxisTriggers("t1", {1, MaxAxisIndex}),
                          other \in ButtonTriggers("t2")}

WideInit ==
    /\ MacroEngineIdle
    /\ \E cat \in WideCatalogues : TriggerEngineConstructed(cat)
    /\ DeviceManagerConstructed([i \in GamepadIdx |-> NoGamepad])
    /\ ConfigManagerConstructed

WideNext ==
    \/ PollGamepads
    \/ \E i \in GamepadIdx, gamepad \in WideGamepads : GamepadConnected(i, gamepad)
    \/ \E i \in GamepadIdx : GamepadDisconnected(i)
    \/ startMonitoring
    \/ stopMonitoring

SpecWide == WideInit /\ [][WideNext]_vars

\* ------------------------------------------------------------------------
\* Trigger Engine: saving and loading the catalogue
\* ------------------------------------------------------------------------
Trigger_toJSON(trigger) ==
    [triggerId |-> trigger.triggerId,
     triggerType |-> trigger.triggerType,
     macroId |-> trigger.macroId,
     deviceId |-> trigger.deviceId,
     inputName |-> trigger.inputName,
     modifiers |-> trigger.modifiers,
     axisThreshold |-> trigger.axisThreshold,
     holdDuration |-> trigger.holdDuration,
     doubleTapWindow |-> trigger.doubleTapWindow,
     enabled |-> trigger.enabled]

\* data.modifiers || [] keeps every array: an empty array is truthy
Trigger_fromJSON(data) ==
    [Trigger(uuidv4, data.triggerType, data.macroId, Some(data.deviceId),
             Some(data.inputName)) EXCEPT
        !.triggerId = OrElse(data.triggerId, {""}, uuidv4),
        !.modifiers = data.modifiers,
        !.axisThreshold = OrElse(data.axisThreshold, {0}, DefaultAxisThreshold),
        !.holdDuration = OrElse(data.holdDuration, {0}, DefaultHoldDuration),
        !.doubleTapWindow = OrElse(data.doubleTapWindow, {0}, DefaultDoubleTapWindow),
        !.enabled = data.enabled]

\* the object's keys are the trigger ids, in insertion order
TriggerEngine_toJSON(catalogue) ==
    [i \in 1..Len(catalogue) |-> Trigger_toJSON(catalogue[i])]

\* this.triggers.clear(), then this.triggers.set(trigger.triggerId, trigger)
\* per entry, in the order of Object.entries
\* up to the entry whose Trigger.fromJSON throws
TriggerEngine_fromJSON(data) ==
    LET read == ReadUpTo(Readable, data)
    IN  [i \in 1..Len(read) |-> Trigger_fromJSON(read[i])]

saveTriggers ==
    /\ EventLoopIdle
    /\ triggersFile' = [exists |-> TRUE, data |-> TriggerEngine_toJSON(triggers)]
    /\ triggersSavedFrom' = triggers
    /\ last' = Step("saveTriggers", <<>>)
    /\ UNCHANGED <<macrosFile, savedFrom, macroVars, deviceVars, fired>>
    /\ UNCHANGED <<triggers, monitoring, listeners, gamepadInterval, pressedKeys,
                   keyPressTimes, keyHoldTimers, timers, now, press, holdFires>>

loadTriggers ==
    /\ EventLoopIdle
    /\ triggers' = IF triggersFile.exists
                   THEN TriggerEngine_fromJSON(triggersFile.data) ELSE triggers
    /\ last' = Step("loadTriggers", <<>>)
    /\ UNCHANGED <<configVars, macroVars, deviceVars, fired>>
    /\ UNCHANGED <<monitoring, listeners, gamepadInterval, pressedKeys,
                   keyPressTimes, keyHoldTimers, timers, now, press, holdFires>>

\* the triggers the save and load specification draws: of three kinds, each
\* field at its default or changed, the numeric fields changed to 0
SavedTriggers(id) ==
    {[ConfiguredTrigger(id, ty, dev, KeyA, mods, hold, window) EXCEPT
          !.axisThreshold = thr, !.enabled = en]
        : ty \in {KEY_HOLD, KEY_DOUBLE_TAP, TRIG_JOYSTICK_AXIS},
          dev \in {None, Some(KeyboardId)},
          mods \in {<<>>},
          hold \in {0, DefaultHoldDuration},
          window \in {0, DefaultDoubleTapWindow},
          thr \in {0, DefaultAxisThreshold},
          en \in BOOLEAN}

TriggerJsonInit ==
    /\ MacroEngineIdle
    /\ \E tr \in SavedTriggers("t1") : TriggerEngineConstructed(<<tr>>)
    /\ DeviceManagerConstructed([i \in GamepadIdx |-> NoGamepad])
    /\ ConfigManagerConstructed

TriggerJsonNext ==
    \/ saveTriggers
    \/ loadTriggers
    \/ \E id \in TriggerIds : deleteTrigger(id)

SpecTriggerJson == TriggerJsonInit /\ [][TriggerJsonNext]_vars

\* ------------------------------------------------------------------------
\* Trigger Engine: the gating specification
\* ------------------------------------------------------------------------
\* a key trigger as the constructor leaves it (no device), on the keyboard,
\* on a joystick, or on a device the Device Manager never scanned
KeyTriggerDevices == {None, Some(KeyboardId), Some(JoystickId(0)), Some(JoystickId(1))}

GatedKeyTriggers(id) ==
    {ConfiguredTrigger(id, ty, dev, KeyA, <<>>, DefaultHoldDuration,
                       DefaultDoubleTapWindow)
        : ty \in {KEY_PRESS, KEY_COMBO}, dev \in KeyTriggerDevices}

GateInit ==
    /\ MacroEngineIdle
    /\ \E tr \in GatedKeyTriggers("t1"), other \in ButtonTriggers("t2") :
          TriggerEngineConstructed(<<tr, other>>)
    /\ DeviceManagerConstructed([i \in GamepadIdx |-> NoGamepad])
    /\ ConfigManagerConstructed

GateNext ==
    \/ \E key \in TouchedKeys : KeyDown(key)
    \/ \E key \in TouchedKeys : KeyUp(key)
    \/ PollGamepads
    \/ \E i \in GamepadIdx, gamepad \in Gamepads : GamepadConnected(i, gamepad)
    \/ \E i \in GamepadIdx : GamepadDisconnected(i)
    \/ \E d \in DeviceIds, enabled \in BOOLEAN : setDeviceEnabled(d, enabled)
    \/ startMonitoring
    \/ stopMonitoring

SpecGate == GateInit /\ [][GateNext]_vars

\* ------------------------------------------------------------------------
\* The specification of gating a hold trigger: the keyboard is disabled and
\* enabled while the hold timer of a keyboard trigger runs
\* ------------------------------------------------------------------------
HoldGateInit ==
    /\ MacroEngineIdle
    /\ \E tr \in HoldTriggers("t1") : TriggerEngineConstructed(<<tr>>)
    /\ DeviceManagerConstructed([i \in GamepadIdx |-> NoGamepad])
    /\ ConfigManagerConstructed

HoldGateNext ==
    \/ Tick
    \/ \E key \in TouchedKeys : KeyDown(key)
    \/ \E key \in TouchedKeys : KeyUp(key)
    \/ \E tm \in timers : HoldTimerExpires(tm)
    \/ \E enabled \in BOOLEAN : setDeviceEnabled(KeyboardId, enabled)
    \/ startMonitoring

SpecHoldGate == HoldGateInit /\ [][HoldGateNext]_vars

\* ------------------------------------------------------------------------
\* Trigger Engine: the specification of several triggers on one key
\* ------------------------------------------------------------------------
\* a trigger of each key kind on the one key, with the constructor's numbers
MixedTriggers(id) ==
    {ConfiguredTrigger(id, ty, Some(KeyboardId), KeyA, <<>>, DefaultHoldDuration,
                       DefaultDoubleTapWindow)
        : ty \in {KEY_PRESS, KEY_COMBO, KEY_HOLD, KEY_DOUBLE_TAP}}

\* two triggers on the key, of any two kinds
MixedCatalogues == {<<a, b>> : a \in MixedTriggers("t1"), b \in MixedTriggers("t2")}

MatchInit ==
    /\ MacroEngineIdle
    /\ \E cat \in MixedCatalogues : TriggerEngineConstructed(cat)
    /\ DeviceManagerConstructed([i \in GamepadIdx |-> NoGamepad])
    /\ ConfigManagerConstructed

MatchNext ==
    \/ Tick
    \/ \E key \in TouchedKeys : KeyDown(key)
    \/ \E key \in TouchedKeys : KeyUp(key)
    \/ \E tm \in timers : HoldTimerExpires(tm)
    \/ startMonitoring
    \/ stopMonitoring

SpecMatch == MatchInit /\ [][MatchNext]_vars

\* ------------------------------------------------------------------------
\* The specification of key combinations: one combo trigger on a key, with
\* no modifier, with the other key as modifier, or with both keys
\* ------------------------------------------------------------------------
DrawnModifiers == {<<>>, <<KeyB>>, <<KeyB, KeyA>>}

ComboTriggers(id) ==
    {ConfiguredTrigger(id, KEY_COMBO, Some(KeyboardId), KeyA, mods,
                       DefaultHoldDuration, DefaultDoubleTapWindow)
        : mods \in DrawnModifiers}

ComboInit ==
    /\ MacroEngineIdle
    /\ \E tr \in ComboTriggers("t1") : TriggerEngineConstructed(<<tr>>)
    /\ DeviceManagerConstructed([i \in GamepadIdx |-> NoGamepad])
    /\ ConfigManagerConstructed

ComboNext ==
    \/ \E key \in Keys : KeyDown(key)
    \/ \E key \in Keys : KeyUp(key)
    \/ startMonitoring
    \/ stopMonitoring

SpecCombo == ComboInit /\ [][ComboNext]_vars

\* ------------------------------------------------------------------------
\* Trigger Engine: the specification of stopping
\* ------------------------------------------------------------------------
\* a gamepad whose buttons are all pressed and whose axes are all deflected
HeldGamepad ==
    [connected |-> TRUE,
     buttons |-> [j \in 1..NumButtons |-> TRUE],
     axes |-> [j \in 1..NumAxes |-> -70]]

\* a key trigger of any kind followed by a joystick trigger
StopCatalogues ==
    {<<k, j>> : k \in MixedTriggers("t1"),
                j \in ButtonTriggers("t2") \cup AxisTriggers("t2", {0})}

\* the gamepad is plugged in, and held, before the application starts
StopInit ==
    /\ MacroEngineIdle
    /\ \E cat \in StopCatalogues : TriggerEngineConstructed(cat)
    /\ DeviceManagerConstructed([i \in GamepadIdx |-> HeldGamepad])
    /\ ConfigManagerConstructed

StopNext ==
    \/ Tick
    \/ \E key \in TouchedKeys : KeyDown(key)
    \/ \E key \in TouchedKeys : KeyUp(key)
    \/ \E tm \in timers : HoldTimerExpires(tm)
    \/ PollGamepads
    \/ startMonitoring
    \/ stopMonitoring

SpecStop == StopInit /\ [][StopNext]_vars

\* ------------------------------------------------------------------------
\* Trigger Engine: the specification of deleting one of two triggers
\* ------------------------------------------------------------------------
\* a trigger of any key kind followed by a hold trigger, both on the one key
DeleteCatalogues ==
    {<<a, b>> : a \in MixedTriggers("t1"),
                b \in {ConfiguredTrigger("t2", KEY_HOLD, Some(KeyboardId), KeyA, <<>>,
                                         DefaultHoldDuration, DefaultDoubleTapWindow)}}

DeleteInit ==
    /\ MacroEngineIdle
    /\ \E cat \in DeleteCatalogues : TriggerEngineConstructed(cat)
    /\ DeviceManagerConstructed([i \in GamepadIdx |-> NoGamepad])
    /\ ConfigManagerConstructed

DeleteNext ==
    \/ Tick
    \/ \E key \in TouchedKeys : KeyDown(key)
    \/ \E key \in TouchedKeys : KeyUp(key)
    \/ \E tm \in timers : HoldTimerExpires(tm)
    \/ startMonitoring
    \/ \E id \in {"t1", "t2"} : deleteTrigger(id)

SpecDelete == DeleteInit /\ [][DeleteNext]_vars

\* ------------------------------------------------------------------------
\* Macro Engine: the specification
\* ------------------------------------------------------------------------
\* the kinds drawn for action lists: one that always sleeps, one that sleeps
\* with robotjs and returns at once without it; "m2" is not in the catalogue
DrawnActionTypes == {TIMER_DELAY, KEYBOARD_KEY}

RECURSIVE SeqsUpTo(_, _)
SeqsUpTo(S, n) ==
    IF n = 0 THEN {<<>>}
    ELSE LET shorter == SeqsUpTo(S, n - 1)
         IN  shorter \cup {Append(q, x) : q \in shorter, x \in S}

\* the uuid of the i-th action of a macro
ActionIdOf(i) == <<"a1", "a2", "a3", "a4">>[i]

\* the action a UI button appends: Add Input, Add Timer
ActionOfType(i, ty) ==
    IF ty = TIMER_DELAY
    THEN MacroAction(ActionIdOf(i), ty, None, None, None, Some(100))
    ELSE MacroAction(ActionIdOf(i), ty, Some("keyboard_0"), Some("Space"), None, None)

\* a macro as created and then edited: actions appended, repeat count and
\* enabled flag set
EditedMacro(m, tys, r, en) ==
    [Macro(m, Some(m)) EXCEPT
        !.actions = [i \in 1..Len(tys) |-> ActionOfType(i, tys[i])],
        !.repeatCount = r,
        !.enabled = en]

DrawnMacros(m) ==
    {EditedMacro(m, tys, r, en)
       : tys \in SeqsUpTo(DrawnActionTypes, MaxActions), r \in 0..MaxRepeat,
         en \in BOOLEAN}

Init ==
    /\ \E m1 \in DrawnMacros("m1") : macros = ("m1" :> m1)
    /\ activePlaybacks = {}
    /\ stopFlags = [m \in MacroIds |-> 0]
    /\ sess = [s \in Sessions |-> UnusedSession]
    /\ robot \in BOOLEAN
    /\ stopRequested = [m \in MacroIds |-> FALSE]
    /\ TriggerEngineConstructed(<<>>)
    /\ DeviceManagerConstructed([i \in GamepadIdx |-> NoGamepad])
    /\ ConfigManagerConstructed

Next ==
    \/ \E m \in MacroIds : playMacro(m)
    \/ \E m \in MacroIds : stopMacro(m)
    \/ stopAllMacros
    \/ \E m \in MacroIds : deleteMacro(m)
    \/ \E s \in Sessions : playMacroCleanup(s)
    \/ \E s \in Sessions : SleepExpires(s)
    \/ \E s \in Sessions : AwaitResumes(s)
    \/ \E s \in Sessions : SpinForever(s)

Spec == Init /\ [][Next]_vars

\* ------------------------------------------------------------------------
\* The specification of loading files written outside the application
\* ------------------------------------------------------------------------
\* the files are plain JSON on disk: an editor or a crashed write leaves any
\* content there
macrosFileEdited(data) ==
    /\ EventLoopIdle
    /\ macrosFile' = [exists |-> TRUE, data |-> data]
    /\ last' = Step("macrosFileEdited", <<>>)
    /\ UNCHANGED <<savedFrom, triggersFile, triggersSavedFrom>>
    /\ UNCHANGED <<macroVars, deviceVars, fired>>
    /\ UNCHANGED <<triggers, monitoring, listeners, gamepadInterval, pressedKeys,
                   keyPressTimes, keyHoldTimers, timers, now, press, holdFires>>

triggersFileEdited(data) ==
    /\ EventLoopIdle
    /\ triggersFile' = [exists |-> TRUE, data |-> data]
    /\ last' = Step("triggersFileEdited", <<>>)
    /\ UNCHANGED <<macrosFile, savedFrom, triggersSavedFrom>>
    /\ UNCHANGED <<macroVars, deviceVars, fired>>
    /\ UNCHANGED <<triggers, monitoring, listeners, gamepadInterval, pressedKeys,
                   keyPressTimes, keyHoldTimers, timers, now, press, holdFires>>

\* file contents with the record of a second macro or trigger, a null in the
\* place of a record, or both in either order
EditedMacroFiles ==
    LET good == Macro_toJSON(EditedMacro("m2", <<TIMER_DELAY>>, 1, TRUE))
    IN  {("m1" :> NullRecord), ("m2" :> good),
         ("m1" :> NullRecord) @@ ("m2" :> good),
         ("m1" :> good) @@ ("m2" :> NullRecord)}

EditedTriggerFiles ==
    LET good == Trigger_toJSON(Trigger("t2", KEY_PRESS, "m1", Some(KeyboardId), Some(KeyB)))
    IN  {<<NullRecord>>, <<good>>, <<NullRecord, good>>, <<good, NullRecord>>}

LoadInit ==
    /\ \E m1 \in {EditedMacro("m1", tys, 1, TRUE) : tys \in {<<>>, <<KEYBOARD_KEY>>}} :
          macros = ("m1" :> m1)
    /\ activePlaybacks = {}
    /\ stopFlags = [m \in MacroIds |-> 0]
    /\ sess = [s \in Sessions |-> UnusedSession]
    /\ robot = FALSE
    /\ stopRequested = [m \in MacroIds |-> FALSE]
    /\ \E tr \in {Trigger("t1", ty, "m1", Some(KeyboardId), Some(KeyA))
                    : ty \in {KEY_PRESS, KEY_HOLD}} : TriggerEngineConstructed(<<tr>>)
    /\ DeviceManagerConstructed([i \in GamepadIdx |-> NoGamepad])
    /\ ConfigManagerConstructed

LoadNext ==
    \/ saveMacros
    \/ saveTriggers
    \/ \E data \in EditedMacroFiles : macrosFileEdited(data)
    \/ \E data \in EditedTriggerFiles : triggersFileEdited(data)
    \/ loadMacros
    \/ loadTriggers

SpecLoad == LoadInit /\ [][LoadNext]_vars

\* ------------------------------------------------------------------------
\* The specification of loading the configuration during playback: the file
\* holds the catalogue as saved, or another catalogue without macro m1
\* ------------------------------------------------------------------------
ReloadedMacroFiles ==
    {("m2" :> Macro_toJSON(EditedMacro("m2", <<TIMER_DELAY>>, 1, TRUE)))}

ReloadInit ==
    /\ \E m1 \in {EditedMacro("m1", tys, r, TRUE)
                     : tys \in {<<TIMER_DELAY>>, <<KEYBOARD_KEY, TIMER_DELAY>>},
                       r \in {0, MaxRepeat}} :
          macros = ("m1" :> m1)
    /\ activePlaybacks = {}
    /\ stopFlags = [m \in MacroIds |-> 0]
    /\ sess = [s \in Sessions |-> UnusedSession]
    /\ robot \in BOOLEAN
    /\ stopRequested = [m \in MacroIds |-> FALSE]
    /\ TriggerEngineConstructed(<<>>)
    /\ DeviceManagerConstructed([i \in GamepadIdx |-> NoGamepad])
    /\ ConfigManagerConstructed

ReloadNext ==
    \/ \E m \in MacroIds : playMacro(m)
    \/ \E m \in MacroIds : stopMacro(m)
    \/ \E s \in Sessions : playMacroCleanup(s)
    \/ \E s \in Sessions : SleepExpires(s)
    \/ \E s \in Sessions : AwaitResumes(s)
    \/ saveMacros
    \/ \E data \in ReloadedMacroFiles : macrosFileEdited(data)
    \/ loadMacros

SpecReload == ReloadInit /\ [][ReloadNext]_vars

\* ------------------------------------------------------------------------
\* The specification of editing a macro during playback
\* ------------------------------------------------------------------------
\* The frames of m that run hold the Macro object of the catalogue, and their
\* for loop iterates over its actions array itself.
FramesOn(m) == {s \in Sessions : sess[s].macroId = m /\ Running(s)}

\* addInputAction / addTimerAction: macro.addAction(action) pushes onto the
\* actions array in place, so the array a running frame iterates over grows
addAction(m, ty) ==
    /\ EventLoopIdle
    /\ m \in DOMAIN macros
    /\ Len(macros[m].actions) < MaxActions
    /\ LET action == ActionOfType(Len(macros[m].actions) + 1, ty)
       IN  /\ macros' = [macros EXCEPT ![m].actions = Append(@, action)]
           /\ sess' = [s \in Sessions |->
                         IF s \in FramesOn(m)
                         THEN [sess[s] EXCEPT !.actions = Append(@, action)]
                         ELSE sess[s]]
    /\ last' = Step("addAction",
                    [macroId |-> m, len |-> Len(macros[m].actions),
                     midPass |-> {s \in FramesOn(m) : sess[s].idx >= 1}])
    /\ UNCHANGED <<activePlaybacks, stopFlags, robot, stopRequested>>
    /\ UNCHANGED <<configVars, deviceVars, fired>>
    /\ UNCHANGED <<triggers, monitoring, listeners, gamepadInterval, pressedKeys,
                   keyPressTimes, keyHoldTimers, timers, now, press, holdFires>>

EditInit ==
    /\ \E m1 \in {EditedMacro("m1", tys, r, TRUE)
                     : tys \in {<<TIMER_DELAY>>, <<KEYBOARD_KEY>>}, r \in 0..MaxRepeat} :
          macros = ("m1" :> m1)
    /\ activePlaybacks = {}
    /\ stopFlags = [m \in MacroIds |-> 0]
    /\ sess = [s \in Sessions |-> UnusedSession]
    /\ robot \in BOOLEAN
    /\ stopRequested = [m \in MacroIds |-> FALSE]
    /\ TriggerEngineConstructed(<<>>)
    /\ DeviceManagerConstructed([i \in GamepadIdx |-> NoGamepad])
    /\ ConfigManagerConstructed

EditNext ==
    \/ playMacro("m1")
    \/ stopMacro("m1")
    \/ \E ty \in DrawnActionTypes : addAction("m1", ty)
    \/ \E s \in Sessions : playMacroCleanup(s)
    \/ \E s \in Sessions : SleepExpires(s)
    \/ \E s \in Sessions : AwaitResumes(s)

SpecEdit == EditInit /\ [][EditNext]_vars

\* ------------------------------------------------------------------------
\* Macro Engine: the specification with a fair event loop
\* ------------------------------------------------------------------------
\* the action lists of the fair specification: a wait, a tap, and the
\* "Combo" macro of TESTING.md, [tap A, wait 100 ms, tap B]
FairActionLists ==
    {<<TIMER_DELAY>>, <<KEYBOARD_KEY>>, <<KEYBOARD_KEY, TIMER_DELAY, KEYBOARD_KEY>>}

FairMacros(m) ==
    {EditedMacro(m, tys, r, TRUE) : tys \in FairActionLists, r \in 0..MaxRepeat}

FairInit ==
    /\ \E m1 \in FairMacros("m1") : macros = ("m1" :> m1)
    /\ activePlaybacks = {}
    /\ stopFlags = [m \in MacroIds |-> 0]
    /\ sess = [s \in Sessions |-> UnusedSession]
    /\ robot \in BOOLEAN
    /\ stopRequested = [m \in MacroIds |-> FALSE]
    /\ TriggerEngineConstructed(<<>>)
    /\ DeviceManagerConstructed([i \in GamepadIdx |-> NoGamepad])
    /\ ConfigManagerConstructed

FairNext ==
    \/ playMacro("m1")
    \/ stopMacro("m1")
    \/ \E s \in Sessions : playMacroCleanup(s)
    \/ \E s \in Sessions : SleepExpires(s)
    \/ \E s \in Sessions : AwaitResumes(s)

\* every setTimeout expires and the event loop runs its callback once the
\* thread is free; every continuation in the microtask queue runs
EventLoopFairness ==
    \A s \in Sessions :
        /\ WF_vars(SleepExpires(s))
        /\ WF_vars(AwaitResumes(s))
        /\ WF_vars(playMacroCleanup(s))

SpecFair == FairInit /\ [][FairNext]_vars /\ EventLoopFairness

\* ------------------------------------------------------------------------
\* The specification of stopping during an injected input: action lists of
\* key holds, key taps, mouse clicks and key releases
\* ------------------------------------------------------------------------
InjectActionLists ==
    {<<KEYBOARD_HOLD>>, <<KEYBOARD_KEY>>, <<MOUSE_CLICK>>,
     <<KEYBOARD_HOLD, KEYBOARD_RELEASE>>, <<KEYBOARD_KEY, MOUSE_CLICK>>}

InjectMacros(m) ==
    {EditedMacro(m, tys, r, TRUE) : tys \in InjectActionLists, r \in 0..MaxRepeat}

InjectInit ==
    /\ \E m1 \in InjectMacros("m1") : macros = ("m1" :> m1)
    /\ activePlaybacks = {}
    /\ stopFlags = [m \in MacroIds |-> 0]
    /\ sess = [s \in Sessions |-> UnusedSession]
    /\ robot \in BOOLEAN
    /\ stopRequested = [m \in MacroIds |-> FALSE]
    /\ TriggerEngineConstructed(<<>>)
    /\ DeviceManagerConstructed([i \in GamepadIdx |-> NoGamepad])
    /\ ConfigManagerConstructed

InjectNext ==
    \/ playMacro("m1")
    \/ stopMacro("m1")
    \/ stopAllMacros
    \/ deleteMacro("m1")
    \/ \E s \in Sessions : playMacroCleanup(s)
    \/ \E s \in Sessions : SleepExpires(s)
    \/ \E s \in Sessions : AwaitResumes(s)

SpecInject == InjectInit /\ [][InjectNext]_vars

\* ------------------------------------------------------------------------
\* The specification of two macros in the catalogue
\* ------------------------------------------------------------------------
PairActionLists == {<<TIMER_DELAY>>, <<KEYBOARD_KEY>>}

PairMacros(m) ==
    {EditedMacro(m, tys, r, TRUE) : tys \in PairActionLists, r \in {0, 1}}

PairInit ==
    /\ \E m1 \in PairMacros("m1"), m2 \in PairMacros("m2") :
          macros = ("m1" :> m1) @@ ("m2" :> m2)
    /\ activePlaybacks = {}
    /\ stopFlags = [m \in MacroIds |-> 0]
    /\ sess = [s \in Sessions |-> UnusedSession]
    /\ robot \in BOOLEAN
    /\ stopRequested = [m \in MacroIds |-> FALSE]
    /\ TriggerEngineConstructed(<<>>)
    /\ DeviceManagerConstructed([i \in GamepadIdx |-> NoGamepad])
    /\ ConfigManagerConstructed

PairNext ==
    \/ \E m \in MacroIds : playMacro(m)
    \/ \E m \in MacroIds : stopMacro(m)
    \/ \E m \in MacroIds : deleteMacro(m)
    \/ \E s \in Sessions : playMacroCleanup(s)
    \/ \E s \in Sessions : SleepExpires(s)
    \/ \E s \in Sessions : AwaitResumes(s)

SpecPair == PairInit /\ [][PairNext]_vars

\* ------------------------------------------------------------------------
\* Claims about the Macro Engine (specification Spec)
\* ------------------------------------------------------------------------
SessionsOf(m) == {s \in Sessions : sess[s].macroId = m}

\* C1: at most one playback session per macro id is running at any instant,
\* a session running from the start of its playback loop to the loop's exit;
\* a playMacro(m) issued while a session of m runs cancels it before the new
\* session starts.
C1_AtMostOneRunningSession ==
    \A m \in MacroIds : Cardinality({s \in SessionsOf(m) : Running(s)}) <= 1

\* C2: after stopMacro(m) has been called, and until playMacro(m) is called
\* again, no session of m begins a further action.
C2_NoActionBeginsAfterStop ==
    [][\A s \in Sessions :
          (/\ sess[s].macroId # ""
           /\ stopRequested[sess[s].macroId]
           /\ stopRequested'[sess[s].macroId])
          => Len(sess'[s].log) <= Len(sess[s].log)]_vars

\* the actions N full passes over K actions begin, in order
RECURSIVE PassesLog(_, _)
PassesLog(n, k) == IF n = 0 THEN <<>> ELSE PassesLog(n - 1, k) \o [i \in 1..k |-> i]

IsPrefix(p, q) == Len(p) <= Len(q) /\ \A i \in 1..Len(p) : p[i] = q[i]

\* C3: a session with repeat count N >= 1 over K actions that is never
\* stopped or restarted begins exactly N*K actions: N consecutive full passes,
\* each in list order.
C3_ExactlyNFullPasses ==
    \A s \in Sessions :
        (sess[s].pc # "unused" /\ sess[s].repeatCount >= 1 /\ ~sess[s].stopped)
        => LET full == PassesLog(sess[s].repeatCount, Len(sess[s].actions))
           IN  /\ IsPrefix(sess[s].log, full)
               /\ sess[s].pc \in {"exited", "done"} => sess[s].log = full

C3_Witness ==
    \E s \in Sessions :
        /\ sess[s].pc = "done" /\ ~sess[s].stopped
        /\ sess[s].repeatCount = 2 /\ Len(sess[s].actions) = 2
        /\ sess[s].log = <<1, 2, 1, 2>>

\* C4: a session with repeat count 0 never leaves its playback loop on its
\* own: as long as its stop flag is clear it is inside the loop, in an action
\* or starting the next pass.
C4_UnboundedUntilStopped ==
    \A s \in Sessions :
        (sess[s].pc # "unused" /\ sess[s].repeatCount = 0 /\ ~sess[s].stopped)
        => Running(s)

C4_Witness ==
    \E s \in Sessions :
        /\ sess[s].repeatCount = 0 /\ Len(sess[s].actions) = 1
        /\ ~sess[s].stopped /\ sess[s].pc = "timer"
        /\ Len(sess[s].log) >= 3

\* ------------------------------------------------------------------------
\* Macro Engine: the save and load specification
\* ------------------------------------------------------------------------
JsonInit ==
    /\ \E m1 \in DrawnMacros("m1") : macros = ("m1" :> m1)
    /\ activePlaybacks = {}
    /\ stopFlags = [m \in MacroIds |-> 0]
    /\ sess = [s \in Sessions |-> UnusedSession]
    /\ robot = FALSE
    /\ stopRequested = [m \in MacroIds |-> FALSE]
    /\ TriggerEngineConstructed(<<>>)
    /\ DeviceManagerConstructed([i \in GamepadIdx |-> NoGamepad])
    /\ ConfigManagerConstructed

JsonNext ==
    \/ saveMacros
    \/ loadMacros
    \/ \E m \in MacroIds, value \in 0..MaxRepeat : updateRepeatCount(m, value)

SpecJson == JsonInit /\ [][JsonNext]_vars

\* ------------------------------------------------------------------------
\* Trigger Engine: hold triggers
\* ------------------------------------------------------------------------
InCatalogue(id) == \E i \in 1..Len(triggers) : triggers[i].triggerId = id

Activated(id) == \E i \in 1..Len(fired) : fired[i].triggerId = id

\* C5: deleting a trigger while a hold timer armed for it is pending cancels
\* the timer, so that a trigger that is no longer in the catalogue never
\* activates its macro: every activation of a step is of a trigger the
\* catalogue holds.
C5_DeletedTriggerNeverActivates ==
    \A i \in 1..Len(fired) : InCatalogue(fired[i].triggerId)

\* C6: a key-up of k cancels the pending hold timer of k without firing it:
\* from the key-up until k goes down again no hold timer of k is scheduled
\* or registered and no hold activation on k happens.
C6_KeyUpCancelsHoldTimer ==
    \A k \in Keys :
        press[k].event = "up" =>
            /\ \A tm \in timers : tm.key # k
            /\ keyHoldTimers[k] = 0
            /\ \A i \in 1..Len(fired) : ~(fired[i].via = <<"hold">> /\ fired[i].input = k)

\* k was pressed with a hold trigger armed, was released before the hold
\* duration had elapsed, the duration has elapsed since, and nothing fired
C6_Witness ==
    \E k \in Keys : \E i \in 1..Len(triggers) :
        /\ triggers[i].triggerId = press[k].winner
        /\ press[k].event = "up" /\ press[k].clean
        /\ press[k].upAt < press[k].at + triggers[i].holdDuration
        /\ now >= press[k].at + triggers[i].holdDuration
        /\ holdFires[triggers[i].triggerId] = 0
        /\ last.op = "Tick"

\* what one press of k owes a hold trigger the press armed: no activation
\* before the hold duration has elapsed, none at all if k was released
\* before that, at most one in any case; when `owed`, exactly one once k
\* has been held for longer than the duration, and none when not `owed`
HoldContract(k, tr, owed) ==
    LET p == press[k]
        n == holdFires[tr.triggerId]
        expiry == p.at + tr.holdDuration
    IN  p.clean =>
            /\ n <= 1
            /\ now < expiry => n = 0
            /\ (p.event = "up" /\ p.upAt < expiry) => n = 0
            /\ (owed /\ p.event = "down" /\ now > expiry) => n = 1
            /\ ~owed => n = 0

ArmedHoldTriggers(k) ==
    {i \in 1..Len(triggers) :
        /\ triggers[i].triggerType = KEY_HOLD /\ triggers[i].inputName = k
        /\ triggers[i].triggerId \in press[k].armed}

\* C7 as stated: every hold trigger with duration D on k fires exactly once,
\* at the timer's expiry, for a press of k that lasts at least D (no up and
\* no further down of k), and never for a press released before D.
C7_HoldFiresOnceAtExpiry ==
    \A k \in Keys : \A i \in ArmedHoldTriggers(k) : HoldContract(k, triggers[i], TRUE)

\* C7, amended: the one timer of k belongs to the last hold trigger on k the
\* press armed, in catalogue order. That trigger fires exactly once, at the
\* timer's expiry, for a press of k that lasts at least its duration, not
\* before and not if k was released before that; the other hold triggers on
\* k do not fire for the press.
C7_LastArmedHoldFiresOnceAtExpiry ==
    \A k \in Keys : \A i \in ArmedHoldTriggers(k) :
        HoldContract(k, triggers[i], triggers[i].triggerId = press[k].winner)

\* a press of k armed two hold triggers, k has been held for longer than the
\* last one's duration and that one has fired once
C7_Witness ==
    \E k \in Keys : \E i \in ArmedHoldTriggers(k) :
        /\ Cardinality(ArmedHoldTriggers(k)) >= 2
        /\ triggers[i].triggerId = press[k].winner
        /\ press[k].clean /\ press[k].event = "down"
        /\ now > press[k].at + triggers[i].holdDuration
        /\ holdFires[triggers[i].triggerId] = 1

\* ------------------------------------------------------------------------
\* Trigger Engine: double-tap triggers
\* ------------------------------------------------------------------------
Gated(tr) == ~(TruthyString(tr.deviceId) /\ ~shouldProcessDeviceInput(tr.deviceId))

\* C8: on a key-down of k that the engine handles, an enabled and gated
\* double-tap trigger on k fires if and only if k had a previous down and
\* the gap between the two most recent downs of k is at most the trigger's
\* doubleTapWindow, for every configured window.
C8_DoubleTapIffGapWithinWindow ==
    \A k \in Keys :
        (last = Step("KeyDown", k) /\ monitoring) =>
            \A i \in 1..Len(triggers) :
                (/\ triggers[i].triggerType = KEY_DOUBLE_TAP
                 /\ triggers[i].inputName = k
                 /\ triggers[i].enabled /\ Gated(triggers[i]))
                => (Activated(triggers[i].triggerId)
                    <=> (/\ press[k].prev >= 0
                         /\ press[k].at - press[k].prev <= triggers[i].doubleTapWindow))

\* ------------------------------------------------------------------------
\* Trigger Engine: joystick-axis triggers
\* ------------------------------------------------------------------------
\* the activations of trigger id a poll made on the sample of axis j
AxisActivations(id, j) ==
    Cardinality({n \in 1..Len(fired) :
                    fired[n].triggerId = id /\ fired[n].via = <<"axis", j>>})

\* C9: an enabled joystick-axis trigger on a gated device is level-triggered:
\* every poll the engine makes while monitoring activates it once on the
\* sample of its axis if the sample's absolute value is at least
\* axisThreshold, and not on that sample if it is below.
C9_AxisTriggerIsLevelTriggered ==
    (last.op = "_pollGamepads" /\ monitoring) =>
        \A g \in GamepadIdx : \A i \in 1..Len(triggers) : \A j \in 0..(NumAxes - 1) :
            (/\ gamepads[g].connected
             /\ shouldProcessDeviceInput(JoystickId(g))
             /\ triggers[i].enabled
             /\ triggers[i].triggerType = TRIG_JOYSTICK_AXIS
             /\ triggers[i].deviceId = JoystickId(g)
             /\ triggers[i].inputName = AxisName(j))
            => AxisActivations(triggers[i].triggerId, j) =
                   IF Abs(gamepads[g].axes[j + 1]) >= triggers[i].axisThreshold
                   THEN 1 ELSE 0

\* the second of two polls in a row activates a trigger again on a sample
\* equal to its threshold and leaves alone a trigger whose sample is below
C9_Witness ==
    /\ last = Step("_pollGamepads", 2) /\ monitoring
    /\ shouldProcessDeviceInput(JoystickId(0))
    /\ \E i, k \in 1..Len(triggers) : \E j, l \in 0..(NumAxes - 1) :
          /\ triggers[i].triggerType = TRIG_JOYSTICK_AXIS
          /\ triggers[i].inputName = AxisName(j)
          /\ Abs(gamepads[0].axes[j + 1]) = triggers[i].axisThreshold
          /\ AxisActivations(triggers[i].triggerId, j) = 1
          /\ triggers[k].triggerType = TRIG_JOYSTICK_AXIS
          /\ triggers[k].inputName = AxisName(l)
          /\ Abs(gamepads[0].axes[l + 1]) < triggers[k].axisThreshold
          /\ ~Activated(triggers[k].triggerId)

\* ------------------------------------------------------------------------
\* Macro Engine: the saved catalogue
\* ------------------------------------------------------------------------
SameAction(a, b) ==
    /\ a.actionId = b.actionId /\ a.actionType = b.actionType
    /\ a.deviceId = b.deviceId /\ a.inputName = b.inputName
    /\ a.value = b.value /\ a.duration = b.duration

SameMacro(a, b) ==
    /\ a.macroId = b.macroId /\ a.name = b.name
    /\ Len(a.actions) = Len(b.actions)
    /\ \A i \in 1..Len(a.actions) : SameAction(a.actions[i], b.actions[i])
    /\ a.repeatCount = b.repeatCount
    /\ a.enabled = b.enabled
    /\ a.description = b.description

\* C10: loading the serialized form of a catalogue C yields a catalogue with
\* the macro ids of C and, per macro, the same name, action sequence, repeat
\* count (for every repeat count >= 0), enabled flag and description: after
\* loadMacros has read a file the catalogue is the one the file was written
\* from.
C10_LoadYieldsTheSavedCatalogue ==
    (last.op = "loadMacros" /\ macrosFile.exists) =>
        /\ DOMAIN macros = DOMAIN savedFrom
        /\ \A id \in DOMAIN macros : SameMacro(macros[id], savedFrom[id])

\* ------------------------------------------------------------------------
\* Trigger Engine: the saved catalogue
\* ------------------------------------------------------------------------
SameTrigger(a, b) ==
    /\ a.triggerId = b.triggerId /\ a.triggerType = b.triggerType
    /\ a.macroId = b.macroId /\ a.deviceId = b.deviceId
    /\ a.inputName = b.inputName /\ a.modifiers = b.modifiers
    /\ a.enabled = b.enabled
    /\ a.axisThreshold = b.axisThreshold
    /\ a.holdDuration = b.holdDuration
    /\ a.doubleTapWindow = b.doubleTapWindow

\* C11: loading the serialized form of a trigger catalogue T yields the
\* trigger ids of T and, per trigger, the same kind, macro id, device id,
\* input name, modifiers, enabled flag, axisThreshold, holdDuration and
\* doubleTapWindow, for every non-negative value of the numeric fields:
\* after loadTriggers has read a file the catalogue is the one the file was
\* written from.
C11_LoadYieldsTheSavedTriggers ==
    (last.op = "loadTriggers" /\ triggersFile.exists) =>
        /\ Len(triggers) = Len(triggersSavedFrom)
        /\ \A i \in 1..Len(triggers) : SameTrigger(triggers[i], triggersSavedFrom[i])

\* ------------------------------------------------------------------------
\* Macro Engine: deleting, failing and missing macros
\* ------------------------------------------------------------------------
Deleted(m) == m \notin DOMAIN macros

\* C12: deleteMacro(m) cancels every running session of m before it removes
\* m: once m is gone from the catalogue no session of m begins a further
\* action, whatever restarts of m came before the deletion.
C12_NoActionBeginsAfterDelete ==
    [][\A s \in Sessions :
          (sess[s].macroId # "" /\ Deleted(sess[s].macroId))
          => Len(sess'[s].log) <= Len(sess[s].log)]_vars

\* ------------------------------------------------------------------------
\* Trigger Engine: gating
\* ------------------------------------------------------------------------
\* the triggers of the catalogue with the id of an activation
TriggersWithId(id) == {triggers[i] : i \in {j \in 1..Len(triggers) : triggers[j].triggerId = id}}

\* the device a trigger listens to: the one it names or, for a key trigger
\* that names none, the keyboard its key events come from
DeviceOf(tr) == IF TruthyString(tr.deviceId) THEN tr.deviceId ELSE KeyboardId

\* C13: a trigger is matched against an input event only if the Device
\* Manager reports its device connected and enabled at that moment: whatever
\* the device id of the trigger, no activation of a key-down or of a gamepad
\* poll is of a trigger whose device is disconnected, disabled or unknown.
C13_FiresOnlyIfDeviceGated ==
    (last.op \in {"KeyDown", "_pollGamepads"}) =>
        \A i \in 1..Len(fired) :
            \A tr \in TriggersWithId(fired[i].triggerId) :
                shouldProcessDeviceInput(DeviceOf(tr))

\* ------------------------------------------------------------------------
\* Trigger Engine: several triggers on one key
\* ------------------------------------------------------------------------
\* the activations of trigger id among a step's activations, in order
RECURSIVE ActivationsOf(_, _)
ActivationsOf(f, id) ==
    IF f = <<>> THEN <<>>
    ELSE IF f[1].triggerId = id THEN <<f[1]>> \o ActivationsOf(Tail(f), id)
    ELSE ActivationsOf(Tail(f), id)

PositionOf(id) == CHOOSE i \in 1..Len(triggers) : triggers[i].triggerId = id

\* on a key-down, every press, combo and double-tap trigger is activated as
\* it would be were it the only trigger of the catalogue, and the activations
\* of one handling of the event come in registration order
EveryMatchActivates ==
    (last'.op = "KeyDown") =>
        /\ \A i \in 1..Len(triggers) :
              triggers[i].triggerType # KEY_HOLD =>
                 ActivationsOf(fired', triggers[i].triggerId)
                   = DispatchKeyDown(listeners, EngineState, <<triggers[i]>>,
                                     monitoring, last'.input, now).fired
        /\ listeners = 1 =>
              \A i, j \in 1..Len(fired') :
                 i < j => PositionOf(fired'[i].triggerId) < PositionOf(fired'[j].triggerId)

\* C14 as stated: on one key-down every enabled, gated trigger whose kind and
\* input match is activated, none suppressed by another match: press, combo
\* and double-tap triggers fire during the event in registration order, and
\* every hold trigger the event armed fires at its own expiry if the key is
\* still held.
C14_EveryMatchActivates ==
    [][/\ EveryMatchActivates
       /\ (\A k \in Keys : \A i \in ArmedHoldTriggers(k) :
              HoldContract(k, triggers[i], TRUE))']_vars

\* C14, amended: press, combo and double-tap triggers that match a key-down
\* all fire during the event, in registration order, none suppressed by
\* another match; of the hold triggers the event armed only the last in
\* registration order fires, at its expiry if the key is still held, because
\* the hold timer is one per key.
C14_MatchesActivateLastHoldFires ==
    [][/\ EveryMatchActivates
       /\ (\A k \in Keys : \A i \in ArmedHoldTriggers(k) :
              HoldContract(k, triggers[i], triggers[i].triggerId = press[k].winner))']_vars

\* one key-down, handled once, activated two triggers
C14_Witness ==
    /\ last.op = "KeyDown" /\ listeners = 1
    /\ Len(fired) = 2 /\ fired[1].triggerId = "t1" /\ fired[2].triggerId = "t2"

\* a key-down armed two hold triggers and, held, only the last one fired
C14_HoldWitness ==
    \E k \in Keys :
        /\ Cardinality(ArmedHoldTriggers(k)) = 2
        /\ press[k].clean /\ press[k].event = "down"
        /\ holdFires["t1"] = 0 /\ holdFires["t2"] = 1

\* ------------------------------------------------------------------------
\* Trigger Engine: stopping
\* ------------------------------------------------------------------------
\* the held set, the press times and the hold-timer table are empty and
\* neither a hold timer nor the gamepad poll interval is scheduled
FullyReset ==
    /\ pressedKeys = {}
    /\ \A k \in Keys : keyPressTimes[k] = <<>> /\ keyHoldTimers[k] = 0
    /\ timers = {}
    /\ ~gamepadInterval

\* C15: stopMonitoring is an idempotent full reset: after it the held set,
\* the press times and the hold-timer table are empty and no hold timer or
\* gamepad poll timer remains scheduled, and a stopMonitoring called while
\* monitoring is off leaves the engine's state unchanged.
C15_StopIsIdempotentFullReset ==
    [][(last'.op = "stopMonitoring") =>
          /\ FullyReset'
          /\ ~monitoring'
          /\ ~monitoring =>
                UNCHANGED <<triggers, monitoring, listeners, gamepadInterval,
                            pressedKeys, keyPressTimes, keyHoldTimers, timers>>]_vars

\* stopMonitoring was called while the hold timer of a held key was pending
C15_Witness ==
    /\ last.op = "stopMonitoring"
    /\ now = 0
    /\ press[KeyA].event = "down" /\ press[KeyA].armed # {}
    /\ \A id \in TriggerIds : holdFires[id] = 0
    /\ FullyReset

\* C16: after stopMonitoring and until the next startMonitoring no trigger
\* activates a macro: key events are ignored, no gamepad poll runs and no
\* hold timer armed before the stop fires.
C16_NoActivationWhileStopped ==
    [][~monitoring => (fired' = <<>> /\ last'.op # "_pollGamepads")]_vars

\* monitoring was stopped while the hold timer of a held key was pending; the
\* key has since been held past the trigger's duration and nothing fired
C16_Witness ==
    /\ ~monitoring /\ listeners > 0
    /\ press[KeyA].event = "down" /\ press[KeyA].armed # {}
    /\ now > DefaultHoldDuration
    /\ \A id \in TriggerIds : holdFires[id] = 0

\* the macro of session s is idle again: no playback entry and no stop flag
Idle(m) == m \notin activePlaybacks /\ stopFlags[m] = 0

\* C17: when robotjs is unavailable, or a call into it fails, the failing
\* action is a no-op and the session goes on: a session with repeat count
\* N >= 1 over K actions that is not stopped still begins all N*K actions, in
\* order, and when its playMacro has returned and no later session of the
\* macro is open the macro is idle.
C17_FailedActionsAreNoOps ==
    \A s \in Sessions :
        (sess[s].pc # "unused" /\ sess[s].repeatCount >= 1 /\ ~sess[s].stopped)
        => LET full == PassesLog(sess[s].repeatCount, Len(sess[s].actions))
               alone == \A o \in SessionsOf(sess[s].macroId) \ {s} :
                           sess[o].pc \in {"unused", "done"}
           IN  /\ IsPrefix(sess[s].log, full)
               /\ sess[s].pc \in {"timer", "micro"} => Len(sess[s].log) >= 1
               /\ sess[s].pc \in {"exited", "done"} => sess[s].log = full
               /\ (sess[s].pc = "done" /\ alone) => Idle(sess[s].macroId)

\* without robotjs a session of two keyboard actions and repeat count 2 has
\* begun all four actions and its macro is idle
C17_Witness ==
    \E s \in Sessions :
        /\ ~robot
        /\ sess[s].pc = "done" /\ ~sess[s].stopped
        /\ sess[s].repeatCount = 2
        /\ Len(sess[s].actions) = 2
        /\ \A i \in 1..2 : sess[s].actions[i].actionType = KEYBOARD_KEY
        /\ sess[s].log = <<1, 2, 1, 2>>
        /\ Idle(sess[s].macroId)

\* getMacro(m) finds nothing, or a macro that is disabled
Unplayable(m) == m \notin DOMAIN macros \/ ~macros[m].enabled

\* C18: playMacro(m) for a macro that is absent or disabled is a no-op: the
\* session table, the stop flags and the catalogue are unchanged, no action
\* begins, and the running sessions are unaffected. A step in which the stop
\* request for m is withdrawn is a playMacro(m).
C18_PlayOfUnplayableMacroIsNoOp ==
    [][\A m \in MacroIds :
          Unplayable(m) =>
             /\ (stopRequested[m] /\ ~stopRequested'[m]) =>
                   UNCHANGED <<macros, activePlaybacks, stopFlags, sess>>
             /\ \A s \in Sessions :
                   (sess[s].pc = "unused" /\ sess'[s].pc # "unused")
                   => sess'[s].macroId # m]_vars

\* playMacro(m1) was called after m1 was deleted, while a session of m1 that
\* survived the deletion runs
C18_Witness ==
    /\ Deleted("m1") /\ ~stopRequested["m1"]
    /\ \E s \in SessionsOf("m1") : Running(s)

\* nothing is left for a further stopMacro of any macro to change
NothingLeftToStop == \A m \in MacroIds : SetStopped(sess, stopFlags, m) = sess

\* C19: stopMacro(m) and stopAllMacros are idempotent, and no-ops when nothing
\* is active: after stopMacro(m) a second stopMacro(m) changes nothing, after
\* stopAllMacros a stopMacro of any macro and a second stopAllMacros change
\* nothing, and with no stop flag for m (for stopAllMacros: no stop flag at
\* all) the call leaves every session as it was.
C19_StopIsIdempotent ==
    [][/\ \A m \in MacroIds :
             stopMacro(m) =>
                /\ SetStopped(sess, stopFlags, m)' = sess'
                /\ stopFlags[m] = 0 => sess' = sess
       /\ stopAllMacros =>
             /\ NothingLeftToStop'
             /\ \A s \in Sessions : sess'[s].stopped =>
                   (sess[s].stopped \/ \E m \in MacroIds : stopFlags[m] = s)
             /\ (\A m \in MacroIds : stopFlags[m] = 0) => sess' = sess]_vars

\* a session whose flag stopMacro has set is still suspended: a second
\* stopMacro of its macro finds the flag
C19_Witness ==
    \E s \in Sessions :
        /\ Running(s) /\ sess[s].stopped
        /\ stopFlags[sess[s].macroId] = s
        /\ stopRequested[sess[s].macroId]

\* C20: firing a trigger never blocks the Trigger Engine: for every target
\* macro, whatever its repeat count and its action list and with or without
\* robotjs, the playMacro call of the activation runs to its first await or to
\* its return after a bounded number of steps and gives control back to the
\* event handler: no call is left inside a loop that never awaits.
C20_ActivationReturns == \A s \in Sessions : sess[s].pc # "spin"

\* ------------------------------------------------------------------------
\* Macro Engine: stopping and finishing sessions
\* ------------------------------------------------------------------------
\* the action session s has begun and not yet completed
InFlight(s) == sess[s].actions[sess[s].idx]

InTimerDelay(s) ==
    /\ sess[s].pc = "timer" /\ sess[s].idx \in 1..Len(sess[s].actions)
    /\ InFlight(s).actionType = TIMER_DELAY

\* C21: a stop requested while a session is suspended in a timer-delay action
\* takes effect immediately, without waiting out the rest of the delay: no
\* session whose stop flag is set is still suspended in a timer delay.
C21_StopCutsTheDelayShort ==
    \A s \in Sessions : sess[s].stopped => ~InTimerDelay(s)

\* C22: with a fair event loop a session of a macro with repeat count N >= 1
\* that is never stopped eventually finishes its last pass and returns to
\* idle: its playMacro has returned after N full passes in list order, the
\* macro is not playing and the table holds no stop flag for it.
C22_UnstoppedSessionFinishes ==
    \A s \in Sessions :
        (sess[s].pc # "unused" /\ sess[s].repeatCount >= 1)
        ~> \/ sess[s].stopped
           \/ /\ sess[s].pc = "done"
              /\ sess[s].log = PassesLog(sess[s].repeatCount, Len(sess[s].actions))
              /\ Idle(sess[s].macroId)

\* [tap, wait, tap] with repeat count 2 has run tap, wait, tap, tap, wait, tap
\* and its macro is idle
C22_Witness ==
    \E s \in Sessions :
        /\ sess[s].pc = "done" /\ ~sess[s].stopped
        /\ sess[s].repeatCount = 2
        /\ Len(sess[s].actions) = 3 /\ sess[s].actions[2].actionType = TIMER_DELAY
        /\ sess[s].log = <<1, 2, 3, 1, 2, 3>>
        /\ Idle(sess[s].macroId)

\* another session, not stopped, has run past the point to which a session
\* without repeat limit is followed
UnfollowedOther(s) ==
    \E o \in Sessions \ {s} : sess[o].pc # "unused" /\ ~sess[o].stopped /\ ~Followed(o)

\* C23: with a fair event loop, once the stop flag of a running session is
\* set the session's loop exits when the action in flight has completed and
\* the session reaches the end of playMacro, for every repeat count, 0
\* included (as far as the other sessions are followed).
C23_StoppedSessionExits ==
    \A s \in Sessions :
        (sess[s].stopped /\ Running(s)) ~> (sess[s].pc = "done" \/ UnfollowedOther(s))

\* a session without repeat limit was stopped and has returned
C23_Witness ==
    \E s \in Sessions :
        /\ sess[s].repeatCount = 0 /\ sess[s].stopped /\ sess[s].pc = "done"
        /\ stopRequested[sess[s].macroId]
        /\ ~UnfollowedOther(s)

\* ------------------------------------------------------------------------
\* Trigger Engine: deleting a trigger
\* ------------------------------------------------------------------------
\* deleteTrigger(t) removes the record of t and leaves the other records, the
\* held set, the press times, the timer table and every scheduled timer alone
DeleteTouchesOnlyTheRecord ==
    (last'.op = "deleteTrigger") =>
        /\ triggers' = SelectSeq(triggers, LAMBDA tr : tr.triggerId # last'.input)
        /\ UNCHANGED <<monitoring, listeners, gamepadInterval, pressedKeys,
                       keyPressTimes, keyHoldTimers, timers>>

\* what the hold trigger registered first does while the hold trigger
\* registered after it on the same key is in the catalogue: it never fires
FiresAsBeforeTheDeletion ==
    \A i \in 1..Len(triggers) :
        (triggers[i].triggerId = "t1" /\ triggers[i].triggerType = KEY_HOLD)
        => holdFires["t1"] = 0

HasUnreadableRecord(data) == \E k \in DOMAIN data : ~Readable(data[k])

\* C25: a catalogue load (MacroEngine.fromJSON or TriggerEngine.fromJSON) that
\* fails on a record it cannot read leaves the catalogue exactly as it was
\* before the load began, never cleared or partly loaded.
C25_FailedLoadLeavesTheCatalogue ==
    [][/\ (last'.op = "loadMacros" /\ macrosFile.exists
              /\ HasUnreadableRecord(macrosFile.data)) => macros' = macros
       /\ (last'.op = "loadTriggers" /\ triggersFile.exists
              /\ HasUnreadableRecord(triggersFile.data)) => triggers' = triggers]_vars

\* ------------------------------------------------------------------------
\* Trigger Engine: the hold-timer table
\* ------------------------------------------------------------------------
TimersOf(k) == {tm \in timers : tm.key = k}

\* C26: in every reachable state at most one hold timer is scheduled per
\* key, and the hold-timer table entry of a key is the handle of exactly that
\* timer (no entry when none is scheduled): re-arming on a further key-down
\* cancels the previous timer instead of stacking a second one.
C26_OneHoldTimerPerInput ==
    \A k \in Keys :
        /\ Cardinality(TimersOf(k)) <= 1
        /\ \A tm \in TimersOf(k) : keyHoldTimers[k] = tm.id
        /\ keyHoldTimers[k] # 0 => \E tm \in TimersOf(k) : tm.id = keyHoldTimers[k]

\* a second key-down without a key-up re-armed the timer of a key with two
\* hold triggers: one timer is scheduled, under the handle in the table
C26_Witness ==
    /\ last.op = "KeyDown" /\ last.input = KeyA
    /\ Len(keyPressTimes[KeyA]) = 2
    /\ Cardinality(press[KeyA].armed) = 2
    /\ Cardinality(TimersOf(KeyA)) = 1
    /\ keyHoldTimers[KeyA] # 0


isMacroPlaying(m) == m \in activePlaybacks

\* C27: isMacroPlaying(m) is true exactly while a session of m is running,
\* and while a session of m runs without having been stopped the stop-flag
\* table entry of m is that session's own flag, so that stopMacro(m) and
\* stopAllMacros() reach it; after every sequence of play, restart, stop and
\* completion.
C27_PlayingExactlyWhileRunning ==
    \A m \in MacroIds :
        /\ \A s \in SessionsOf(m) :
              (Running(s) /\ ~sess[s].stopped)
                  => (isMacroPlaying(m) /\ stopFlags[m] = s)
        /\ isMacroPlaying(m)
              => \E s \in SessionsOf(m) : sess[s].pc \in {"timer", "micro", "spin", "exited"}


\* the action awaits _sleep when it is carried out without an error
MayWait(action) ==
    \/ action.actionType = TIMER_DELAY
    \/ robot /\ action.actionType \in {KEYBOARD_KEY, KEYBOARD_HOLD, MOUSE_CLICK}

\* the step resumes session s after the last action of a pass and begins the
\* first action of the next pass
BeginsNextPass(s) ==
    /\ Running(s)
    /\ sess[s].idx = Len(sess[s].actions)
    /\ sess'[s].idx = 1
    /\ Len(sess'[s].log) = Len(sess[s].log) + 1

\* C28: a playing session yields the thread to the event loop at least once
\* per pass, also with repeat count 0, with an empty action list or one made
\* only of actions without a wait, and without the input injector: no step
\* leaves a session in a loop that never awaits, and a session goes from one
\* pass to the next in a microtask only if an action of the pass awaits a
\* timer.
C28_YieldsOncePerPass ==
    [][\A s \in Sessions :
          /\ sess'[s].pc # "spin"
          /\ (sess[s].pc = "micro" /\ BeginsNextPass(s))
                => \E i \in 1..Len(sess[s].actions) : MayWait(sess[s].actions[i])]_vars


\* the step begins an action of session s
BeginsAnAction(s) == sess'[s].log # sess[s].log /\ sess'[s].log # <<>>

\* C29: within one session actions begin strictly in list order, one per
\* step that resumes the session from the await of the previous action (or
\* that starts it), a timer wait ending only in a macrotask of its own; the
\* first action of the next pass begins only from the last action of the pass.
C29_ActionsBeginInListOrder ==
    [][\A s \in Sessions :
          BeginsAnAction(s) =>
              /\ sess[s].pc \in {"unused", "timer", "micro"}
              /\ sess[s].pc = "timer" => EventLoopIdle
              /\ sess'[s].log = Append(sess[s].log, sess'[s].idx)
              /\ sess'[s].idx = IF sess[s].idx < Len(sess'[s].actions)
                                THEN sess[s].idx + 1 ELSE 1
              /\ \A o \in Sessions \ {s} : ~BeginsAnAction(o)]_vars

\* a session of three actions and two passes has begun the first action of
\* its second pass
C29_Witness ==
    \E s \in Sessions :
        /\ sess[s].repeatCount = 2 /\ Len(sess[s].actions) = 3
        /\ sess[s].log = <<1, 2, 3, 1>> /\ sess[s].idx = 1
        /\ sess[s].pc = "timer"


\* session s is in the wait of an injected input: the duration of a key hold
\* or the settle pause of a key tap or mouse click
InInjectedWait(s) ==
    /\ sess[s].pc = "timer" /\ sess[s].idx \in 1..Len(sess[s].actions)
    /\ InFlight(s).actionType \in {KEYBOARD_HOLD, KEYBOARD_KEY, MOUSE_CLICK}

\* C30: a stop request never interrupts an action that has begun.  A step
\* that sets the stop flag of a session in the duration wait of a key hold or
\* in the settle pause of a key tap or mouse click leaves the session in that
\* wait, and a stopped session leaves the wait only when its timer expires,
\* to observe the flag and return.
C30_StopLeavesTheActionInFlight ==
    [][\A s \in Sessions :
          InInjectedWait(s) =>
              /\ (~sess[s].stopped /\ sess'[s].stopped)
                    => (sess'[s].pc = "timer" /\ sess'[s].idx = sess[s].idx)
              /\ (sess[s].stopped /\ sess'[s].pc # "timer")
                    => (EventLoopIdle /\ sess'[s].pc = "exited")]_vars

\* the stop flag of a session was set during the duration wait of its key
\* hold, and the session is still in that wait
C30_Witness ==
    \E s \in Sessions :
        /\ sess[s].stopped /\ InInjectedWait(s)
        /\ InFlight(s).actionType = KEYBOARD_HOLD
        /\ stopRequested[sess[s].macroId]

\* the step is the playMacro call that session s is the frame of
StartsSession(s) == sess[s].pc = "unused" /\ sess'[s].pc # "unused"

\* C31: each new session starts with its own stop flag cleared: whatever stop
\* requests preceded the playMacro(m) call, and although the call sets the
\* flag of the session it supersedes, the session the call starts has its flag
\* clear and it is that flag the stop-flag table then holds for m.
C31_NewSessionStartsUnstopped ==
    [][\A s \in Sessions :
          StartsSession(s) =>
              /\ ~sess'[s].stopped
              /\ stopFlags'[sess'[s].macroId] = s
              /\ \A o \in Sessions \ {s} :
                    (sess[o].macroId = sess'[s].macroId /\ stopFlags[sess[o].macroId] = o)
                        => sess'[o].stopped]_vars

\* a restart: the superseded session of the macro is stopped, the session that
\* replaced it is playing with its flag clear
C31_Witness ==
    \E s1, s2 \in Sessions :
        /\ s1 # s2 /\ sess[s1].macroId = sess[s2].macroId
        /\ sess[s1].stopped /\ Running(s1)
        /\ ~sess[s2].stopped /\ Running(s2)
        /\ stopFlags[sess[s2].macroId] = s2

\* C32: sessions of different macros are independent: a playMacro(a),
\* stopMacro(a) or deleteMacro(a) step changes neither the stop-flag table
\* entry, nor the session-table entry, nor the frame (flag, pass counter,
\* position, begun actions) of any session of another macro b.
C32_OtherMacrosUntouched ==
    [][\A a \in MacroIds :
          (playMacro(a) \/ stopMacro(a) \/ deleteMacro(a)) =>
              \A b \in MacroIds \ {a} :
                  /\ stopFlags'[b] = stopFlags[b]
                  /\ isMacroPlaying(b)' = isMacroPlaying(b)
                  /\ \A s \in SessionsOf(b) : sess'[s] = sess[s]
                  /\ b \in DOMAIN macros => (b \in DOMAIN macros' /\ macros'[b] = macros[b])]_vars

\* m1 was stopped while sessions of m1 and m2 were playing: the session of m2
\* plays on
C32_Witness ==
    \E s, o \in Sessions :
        /\ sess[s].macroId = "m1" /\ sess[s].stopped /\ Running(s)
        /\ stopRequested["m1"] /\ ~stopRequested["m2"]
        /\ sess[o].macroId = "m2" /\ ~sess[o].stopped /\ Running(o)
        /\ stopFlags["m2"] = o /\ isMacroPlaying("m2")

\* the last step was a key-down of `key` that the engine handled
HandledKeyDown(key) ==
    last.op = "KeyDown" /\ last.input = key /\ monitoring /\ listeners > 0

FiredBy(id) == {i \in 1..Len(fired) : fired[i].triggerId = id}

\* C33: an enabled, gated combo trigger fires on a handled key-down of its
\* key if and only if every one of its modifiers is in the held set at that
\* moment; then the last event of each modifier is a key-down, so a modifier
\* pressed and released before does not count; a combo trigger without
\* modifiers fires on every handled down of its key.
C33_ComboFiresIffModifiersHeld ==
    \A i \in 1..Len(triggers) :
        LET tr == triggers[i]
        IN  (/\ tr.triggerType = KEY_COMBO /\ tr.enabled /\ Gated(tr)
             /\ HandledKeyDown(tr.inputName))
            => /\ FiredBy(tr.triggerId) # {}
                  <=> \A j \in 1..Len(tr.modifiers) : tr.modifiers[j] \in pressedKeys
               /\ FiredBy(tr.triggerId) # {}
                  => \A j \in 1..Len(tr.modifiers) : press[tr.modifiers[j]].event = "down"
               /\ tr.modifiers = <<>> => FiredBy(tr.triggerId) # {}

\* the modifier was pressed and released, then the key went down: the combo
\* trigger did not fire
C33_Witness ==
    /\ HandledKeyDown(KeyA)
    /\ triggers[1].modifiers = <<KeyB>>
    /\ press[KeyB].event = "up" /\ keyPressTimes[KeyB] # <<>>
    /\ fired = <<>>

\* the modifier is held and the key went down: the combo trigger fired
C33_FiredWitness ==
    /\ HandledKeyDown(KeyA)
    /\ triggers[1].modifiers = <<KeyB>>
    /\ KeyB \in pressedKeys
    /\ fired # <<>>

\* C34: after any sequence of startMonitoring and stopMonitoring calls, while
\* monitoring is on each key-down event is processed exactly once: the step
\* appends one timestamp to the key's history and each matching, enabled and
\* gated press trigger activates its macro exactly once.
C34_KeyDownProcessedOnce ==
    [][(monitoring /\ last'.op = "KeyDown") =>
          LET key == last'.input
          IN  /\ Len(keyPressTimes'[key]) <= Len(keyPressTimes[key]) + 1
              /\ \A i \in 1..Len(triggers) :
                    (/\ triggers[i].triggerType = KEY_PRESS
                     /\ triggers[i].inputName = key
                     /\ triggers[i].enabled /\ Gated(triggers[i]))
                    => Cardinality({j \in 1..Len(fired') :
                                      fired'[j].triggerId = triggers[i].triggerId}) = 1]_vars

\* C35: a hold trigger fires at timer expiry only if at that moment it is
\* still enabled and its device still passes gating: every activation made by
\* an expiring hold timer is of a trigger that is enabled and whose device is
\* connected and enabled.
C35_HoldFiresOnlyIfStillGated ==
    last.op = "HoldTimerExpires" =>
        \A i \in 1..Len(fired) :
            \A tr \in TriggersWithId(fired[i].triggerId) : tr.enabled /\ Gated(tr)

\* C36: after MacroEngine.fromJSON has replaced the catalogue, no session of a
\* macro that is absent from the new catalogue begins a further action: once
\* the catalogue was loaded, a session whose macro it does not hold never adds
\* to its begun actions.
C36_NoActionBeginsAfterLoadRemoved ==
    [][\A s \in Sessions :
          (/\ last.op = "loadMacros" /\ last'.op = "loadMacros"
           /\ sess[s].macroId # ""
           /\ sess[s].macroId \notin DOMAIN macros
           /\ sess[s].macroId \notin DOMAIN macros')
          => sess'[s].log = sess[s].log \/ sess'[s].log = <<>>]_vars

\* C37: if the action list of a playing macro is edited while its session is
\* suspended in the middle of a pass, the pass executes the actions that were
\* in the list when it began and the edit takes effect from the next pass.
\* For a session of a single pass: after an action was added in the middle
\* of its pass, the session begins no action beyond the end the list had
\* before the edit.
C37_EditTakesEffectNextPass ==
    [][\A s \in Sessions :
          (/\ last.op = "addAction" /\ last'.op = "addAction"
           /\ s \in last.input.midPass
           /\ sess[s].repeatCount = 1
           /\ BeginsAnAction(s))
          => sess'[s].idx <= last.input.len]_vars

\* C38: a joystick trigger fires only on samples from its own device and its
\* own button or axis index: every activation a poll makes on the sample of
\* axis j is of a trigger configured for that device and for axis j, and
\* every activation on a pressed button j is of a trigger configured for
\* button j.
C38_FiresOnlyOnOwnIndex ==
    last.op = "_pollGamepads" =>
        \A n \in 1..Len(fired) : \A tr \in TriggersWithId(fired[n].triggerId) :
            /\ tr.deviceId \in {JoystickId(g) : g \in {i \in GamepadIdx : gamepads[i].connected}}
            /\ fired[n].via[1] = "axis" => tr.inputName = AxisName(fired[n].via[2])
            /\ fired[n].via[1] = "button" => tr.inputName = ButtonName(fired[n].via[2])

\* C39: a device disabled with setDeviceEnabled(d, false) stays disabled, and
\* shouldProcessDeviceInput(d) stays false, across every device rescan until
\* setDeviceEnabled(d, true) is called: a step that is not a setDeviceEnabled
\* call for d leaves a disabled device d disabled.
C39_DisabledStaysDisabled ==
    [][\A d \in DeviceIds :
          (/\ d \in DOMAIN enabledDevices /\ ~enabledDevices[d]
           /\ ~(last'.op = "setDeviceEnabled" /\ last'.input = d))
          => (~isDeviceEnabled(d)' /\ ~shouldProcessDeviceInput(d)')]_vars

\* the held set, the press histories and the hold-timer table are empty and
\* no hold timer is scheduled
KeyStateEmpty ==
    /\ pressedKeys = {}
    /\ \A k \in Keys : keyPressTimes[k] = <<>> /\ keyHoldTimers[k] = 0
    /\ timers = {}

\* C40: in every reachable state in which monitoring is off the held-input
\* set, the per-input timestamp history and the hold-timer table are empty
\* and no hold timer is scheduled, and a key-down or key-up event arriving
\* while monitoring is off changes no Trigger Engine state and activates
\* nothing.
C40_MonitoringOffStateIsEmpty ==
    [][/\ ~monitoring => KeyStateEmpty
       /\ ~monitoring' => KeyStateEmpty'
       /\ (~monitoring /\ last'.op \in {"KeyDown", "KeyUp"})
             => /\ UNCHANGED <<triggers, monitoring, listeners, gamepadInterval,
                               pressedKeys, keyPressTimes, keyHoldTimers, timers>>
                /\ fired' = <<>>]_vars

\* monitoring was on, with the key held and its hold timer pending, and is
\* off: a key-down that arrived since has left the engine's state empty
C40_Witness ==
    /\ ~monitoring /\ listeners > 0 /\ KeyStateEmpty
    /\ last = Step("KeyDown", KeyA)
    /\ press[KeyA].event = "down" /\ press[KeyA].armed = {}
    /\ now > 0

====
